---------------------------- MODULE Spec2Model ----------------------------
(***************************************************************************)
(* Model of the pstt audio pipeline: the BlockingQueue of src/buffers.rs,  *)
(* and the RecordingSession of src/main.rs with its four worker threads    *)
(* (src/resampler.rs, src/writer.rs, src/recognition.rs,                   *)
(* src/text_writer.rs).                                                    *)
(*                                                                         *)
(* A Mutex critical section that holds the lock from lock() to the end of  *)
(* the function is one atomic action; Condvar::wait releases the lock and  *)
(* parks the caller, so a pop_batch that finds the queue empty is split at *)
(* the wait.                                                               *)
(***************************************************************************)
EXTENDS Integers, Sequences, FiniteSets, TLC

(***************************************************************************)
(* Bounds of the queue model.                                              *)
(***************************************************************************)
MaxSize == 2        \* max_size given to BlockingQueue::new
MaxBatch == 2       \* longest Vec handed to push
MaxCount == 2       \* largest max_count handed to pop_batch / try_pop_batch
MaxItems == 3       \* items ever offered to the queue (accepted or rejected)

Pushers == {"p1", "p2"}
Poppers == {"c1", "c2"}
Threads == Pushers \cup Poppers

VARIABLES
    queue,          \* BlockingQueue.queue: the VecDeque behind the Mutex
    max_size,       \* BlockingQueue.max_size
    pc,             \* per thread: the call it is in, and where
    arg,            \* per thread: the argument of the call in progress
    ret,            \* the latest return (thread and value), cleared by the next call
    nextId,         \* identity of the next item a producer creates
    pushed,         \* history: items of accepted pushes, in lock order
    popped,         \* history: items returned by pops, in lock order
    rejected,       \* history: items of rejected pushes
    \* RecordingSession (src/main.rs) and its threads
    stop_signal,    \* RecordingSession.stop_signal: the shared AtomicBool
    stream,         \* RecordingSession.stream: "playing" until dropped
    text_tx,        \* RecordingSession.text_tx: TRUE while the session holds it
    raw_queue,      \* pipeline.raw_queue
    resampled_queue_writer,     \* pipeline.resampled_queue_writer
    resampled_queue_realtime,   \* pipeline.resampled_queue_realtime
    resampler,      \* resampler thread: pc, AudioResampler.buffer, output in hand
    writer,         \* WAV writer thread: pc, samples written, file finalized, its file's path
    recognition,    \* recognition thread: pc, its Sender clone, calls made, events sent, its error
    text_channel,   \* events sent on the text channel and not yet received
    text_writer,    \* text writer thread: pc, line_count, lines not yet flushed, lines written
    wav_path_channel,   \* paths sent on the wav path channel and not yet received
    session,        \* the RecordingSession: its base name and paths, and the thread in stop(): pc, threads joined, output
    failed,         \* history: the workers that returned an error
    captured,       \* history: how often the capture callback has run
    pending_at_stop,    \* history: stop() was called with all workers running and raw samples queued
    \* run_recording_mode (src/main.rs)
    recording_loop, \* the loop's thread: pc, is_recording, the session slot, the command read
    running,        \* the AtomicBool the Ctrl+C handler clears
    sessions,       \* every RecordingSession instance created, in order of creation
    handled,        \* history: commands other than None handled so far
    \* the environment of a run
    config,         \* the Config that Config::load returned
    sherpa_engine,  \* whether the build has the sherpa-engine feature
    validation,     \* what Config::validate returned, "none" before it ran
    now,            \* Local::now(), in seconds since RecordingSession::start took it
    \* the conversion of the WAV writer (src/writer.rs)
    f32_samples,    \* the Vec<f32> try_pop_batch returned, each sample in steps of 1/SampleSteps
    wav,            \* the i16 samples handed to write_sample, in order
    \* an AudioResampler called on its own (src/resampler.rs)
    fed,            \* history: the samples passed to process, in order
    transformed,    \* history: the frames handed to the transform, in order
    returned,       \* what the last call of process or flush returned: "none", "Ok", "Err"
    \* the Mutex of each BlockingQueue of the pipeline (src/buffers.rs)
    mutex           \* per queue: the thread that holds its MutexGuard, or "free"

qvars == <<queue, max_size, pc, arg, ret, nextId, pushed, popped, rejected>>

svars == <<stop_signal, stream, text_tx, raw_queue, resampled_queue_writer,
           resampled_queue_realtime, resampler, writer, recognition, text_channel,
           text_writer, wav_path_channel, session, failed, captured, pending_at_stop>>

lvars == <<recording_loop, running, sessions, handled>>

evars == <<config, sherpa_engine, validation, now>>

wvars == <<f32_samples, wav>>

rvars == <<fed, transformed, returned>>

mvars == <<mutex>>

vars == <<qvars, svars, lvars, evars, wvars, rvars, mvars>>

Min(a, b) == IF a < b THEN a ELSE b

\* n fresh items, the first of them a
Ids(a, n) == [i \in 1..n |-> a + i - 1]

Elems(s) == {s[i] : i \in 1..Len(s)}

Occurrences(s, x) == Cardinality({i \in 1..Len(s) : s[i] = x})

IsPrefix(s, t) == Len(s) <= Len(t) /\ SubSeq(t, 1, Len(s)) = s

NoArg == [kind |-> "none", items |-> <<>>, n |-> 0]
\* a return value: by whom, from which operation, and what. ok is push's bool,
\* and for try_pop_batch whether it is Some; items is the Vec popped
NoRet == [by |-> "none", op |-> "none", ok |-> FALSE, items |-> <<>>]
Ret(t, o, b, s) == [by |-> t, op |-> o, ok |-> b, items |-> s]

(***************************************************************************)
(* BlockingQueue (src/buffers.rs)                                          *)
(***************************************************************************)

\* mutant: the capacity test forgets what is already queued
PushOverflows_IgnoresQueue(q, items, cap) == Len(items) > cap

\* mutant: the capacity test off by one
PushOverflows_OffByOne(q, items, cap) == Len(q) + Len(items) > cap + 1

\* push, line 22: the batch is rejected when it does not fit
PushOverflows(q, items, cap) == Len(q) + Len(items) > cap

\* mutant: an overflowing batch is enqueued up to the capacity
PushExtend_Partial(q, items, cap) ==
    IF Len(q) + Len(items) > cap
    THEN q \o SubSeq(items, 1, Min(Len(items), cap - Len(q)))
    ELSE q \o items

\* push, lines 22-27: queue.extend(items), or the queue as it was
PushExtend(q, items, cap) ==
    IF PushOverflows(q, items, cap) THEN q ELSE q \o items

\* push_single, line 35
PushSingleFull(q, cap) == Len(q) >= cap

\* mutant: max_count is ignored and the whole queue is taken
PopCount_All(q, max_count) == Len(q)

\* pop_batch line 54, try_pop_batch line 65
PopCount(q, max_count) == Min(Len(q), max_count)

\* mutant: the newest items are taken instead of the oldest
DrainTaken_FromBack(q, count) == SubSeq(q, Len(q) - count + 1, Len(q))

\* queue.drain(..count).collect(): the items taken
DrainTaken(q, count) == SubSeq(q, 1, count)

\* mutant: the last item taken also stays in the queue
DrainRest_KeepsLast(q, count) == SubSeq(q, IF count = 0 THEN 1 ELSE count, Len(q))

\* queue.drain(..count): what stays in the queue
DrainRest(q, count) == SubSeq(q, count + 1, Len(q))

\* mutant: pop_batch does not wait for data
MustWait_Never(q) == FALSE

\* pop_batch, line 49: the loop condition of the wait
MustWait(q) == q = <<>>

Waiting == {t \in Threads : pc[t] = "waiting"}

\* condvar.notify_one() by thread t, which then returns: one parked thread, if
\* there is one, leaves the wait and must take the lock again
NotifyOneAndReturn(t) ==
    IF Waiting = {}
    THEN pc' = [pc EXCEPT ![t] = "idle"]
    ELSE \E w \in Waiting : pc' = [pc EXCEPT ![t] = "idle", ![w] = "notified"]

QInit ==
    /\ queue = <<>>
    /\ max_size = MaxSize
    /\ pc = [t \in Threads |-> "idle"]
    /\ arg = [t \in Threads |-> NoArg]
    /\ ret = NoRet
    /\ nextId = 1
    /\ pushed = <<>>
    /\ popped = <<>>
    /\ rejected = {}

\* a producer calls push(items)
CallPush(t) ==
    /\ t \in Pushers
    /\ pc[t] = "idle"
    /\ \E n \in 0..MaxBatch :
        /\ nextId + n - 1 <= MaxItems
        /\ arg' = [arg EXCEPT ![t] = [kind |-> "push", items |-> Ids(nextId, n), n |-> n]]
        /\ nextId' = nextId + n
    /\ pc' = [pc EXCEPT ![t] = "push"]
    /\ ret' = NoRet
    /\ UNCHANGED <<queue, max_size, pushed, popped, rejected>>
    /\ UNCHANGED <<svars, lvars, evars, wvars, rvars, mvars>>

\* push, lines 20-30, under the lock
Push(t) ==
    /\ pc[t] = "push"
    /\ queue' = PushExtend(queue, arg[t].items, max_size)
    /\ IF PushOverflows(queue, arg[t].items, max_size)
       THEN /\ ret' = Ret(t, pc[t], FALSE, <<>>)
            /\ pc' = [pc EXCEPT ![t] = "idle"]
            /\ rejected' = rejected \cup Elems(arg[t].items)
            /\ UNCHANGED pushed
       ELSE /\ ret' = Ret(t, pc[t], TRUE, <<>>)
            /\ NotifyOneAndReturn(t)
            /\ pushed' = pushed \o arg[t].items
            /\ UNCHANGED rejected
    /\ arg' = [arg EXCEPT ![t] = NoArg]
    /\ UNCHANGED <<max_size, nextId, popped>>
    /\ UNCHANGED <<svars, lvars, evars, wvars, rvars, mvars>>

\* a producer calls push_single(item)
CallPushSingle(t) ==
    /\ t \in Pushers
    /\ pc[t] = "idle"
    /\ nextId <= MaxItems
    /\ arg' = [arg EXCEPT ![t] = [kind |-> "push_single", items |-> Ids(nextId, 1), n |-> 1]]
    /\ nextId' = nextId + 1
    /\ pc' = [pc EXCEPT ![t] = "push_single"]
    /\ ret' = NoRet
    /\ UNCHANGED <<queue, max_size, pushed, popped, rejected>>
    /\ UNCHANGED <<svars, lvars, evars, wvars, rvars, mvars>>

\* push_single, lines 33-43, under the lock
PushSingle(t) ==
    /\ pc[t] = "push_single"
    /\ IF PushSingleFull(queue, max_size)
       THEN /\ ret' = Ret(t, pc[t], FALSE, <<>>)
            /\ pc' = [pc EXCEPT ![t] = "idle"]
            /\ rejected' = rejected \cup Elems(arg[t].items)
            /\ UNCHANGED <<queue, pushed>>
       ELSE /\ queue' = Append(queue, arg[t].items[1])
            /\ ret' = Ret(t, pc[t], TRUE, <<>>)
            /\ NotifyOneAndReturn(t)
            /\ pushed' = pushed \o arg[t].items
            /\ UNCHANGED rejected
    /\ arg' = [arg EXCEPT ![t] = NoArg]
    /\ UNCHANGED <<max_size, nextId, popped>>
    /\ UNCHANGED <<svars, lvars, evars, wvars, rvars, mvars>>

\* a consumer calls pop_batch(max_count)
CallPopBatch(t) ==
    /\ t \in Poppers
    /\ pc[t] = "idle"
    /\ \E m \in 0..MaxCount :
        arg' = [arg EXCEPT ![t] = [kind |-> "pop_batch", items |-> <<>>, n |-> m]]
    /\ pc' = [pc EXCEPT ![t] = "pop_batch"]
    /\ ret' = NoRet
    /\ UNCHANGED <<queue, max_size, nextId, pushed, popped, rejected>>
    /\ UNCHANGED <<svars, lvars, evars, wvars, rvars, mvars>>

\* pop_batch, lines 46-56: entered with the lock, either freshly taken
\* (pc = "pop_batch") or taken again on leaving condvar.wait (pc = "notified")
PopBatch(t) ==
    /\ pc[t] \in {"pop_batch", "notified"}
    /\ IF MustWait(queue)
       THEN /\ pc' = [pc EXCEPT ![t] = "waiting"]
            /\ UNCHANGED <<queue, arg, ret, popped>>
       ELSE LET count == PopCount(queue, arg[t].n) IN
            /\ ret' = Ret(t, "pop_batch", TRUE, DrainTaken(queue, count))
            /\ queue' = DrainRest(queue, count)
            /\ popped' = popped \o DrainTaken(queue, count)
            /\ pc' = [pc EXCEPT ![t] = "idle"]
            /\ arg' = [arg EXCEPT ![t] = NoArg]
    /\ UNCHANGED <<max_size, nextId, pushed, rejected>>
    /\ UNCHANGED <<svars, lvars, evars, wvars, rvars, mvars>>

\* Condvar::wait may return without a notification
SpuriousWakeup(t) ==
    /\ pc[t] = "waiting"
    /\ pc' = [pc EXCEPT ![t] = "notified"]
    /\ UNCHANGED <<queue, max_size, arg, ret, nextId, pushed, popped, rejected>>
    /\ UNCHANGED <<svars, lvars, evars, wvars, rvars, mvars>>

\* a consumer calls try_pop_batch(max_count)
CallTryPopBatch(t) ==
    /\ t \in Poppers
    /\ pc[t] = "idle"
    /\ \E m \in 0..MaxCount :
        arg' = [arg EXCEPT ![t] = [kind |-> "try_pop_batch", items |-> <<>>, n |-> m]]
    /\ pc' = [pc EXCEPT ![t] = "try_pop_batch"]
    /\ ret' = NoRet
    /\ UNCHANGED <<queue, max_size, nextId, pushed, popped, rejected>>
    /\ UNCHANGED <<svars, lvars, evars, wvars, rvars, mvars>>

\* try_pop_batch, lines 59-67, under the lock
TryPopBatch(t) ==
    /\ pc[t] = "try_pop_batch"
    /\ IF queue = <<>>
       THEN /\ ret' = Ret(t, "try_pop_batch", FALSE, <<>>)
            /\ UNCHANGED <<queue, popped>>
       ELSE LET count == PopCount(queue, arg[t].n) IN
            /\ ret' = Ret(t, "try_pop_batch", TRUE, DrainTaken(queue, count))
            /\ queue' = DrainRest(queue, count)
            /\ popped' = popped \o DrainTaken(queue, count)
    /\ pc' = [pc EXCEPT ![t] = "idle"]
    /\ arg' = [arg EXCEPT ![t] = NoArg]
    /\ UNCHANGED <<max_size, nextId, pushed, rejected>>
    /\ UNCHANGED <<svars, lvars, evars, wvars, rvars, mvars>>

QNext ==
    \E t \in Threads :
        \/ CallPush(t)
        \/ Push(t)
        \/ CallPushSingle(t)
        \/ PushSingle(t)
        \/ CallPopBatch(t)
        \/ PopBatch(t)
        \/ SpuriousWakeup(t)
        \/ CallTryPopBatch(t)
        \/ TryPopBatch(t)

(***************************************************************************)
(* RecordingSession (src/main.rs) with the capture callback and the four   *)
(* worker threads. The state below is the one RecordingSession::start      *)
(* returns in: the stream plays and every thread stands at its entry.      *)
(*                                                                         *)
(* Sizes are scaled: ChunkSize stands for the 1024-sample frame, and the   *)
(* pop sizes keep their ratio to it. Every captured sample is silence (0), *)
(* so averaging and gain keep it 0 and only lengths vary; a resampled      *)
(* sample carries the number of the frame it came from.                    *)
(***************************************************************************)
ChunkSize == 2      \* chunk_size of resampler_thread, scaled
OutPerFrame == 1    \* samples the transform returns for one frame
BufferSize == 5     \* capacity AudioPipeline::new gives each queue, scaled
MaxCaptures == 1    \* runs of the capture callback
AudioGain == 2      \* config.audio_gain

\* try_pop_batch(4096) of the resampler and of the recognition thread
LargePop == 4 * ChunkSize
\* try_pop_batch(1024) of the WAV writer
WriterPop == ChunkSize

\* lengths of the slices the capture callback hands over: an odd one, and an
\* even one that is exactly one frame once its pairs are averaged
CaptureLens == {1, 2 * ChunkSize}

Silence(n) == [i \in 1..n |-> 0]

Clamp(x, lo, hi) == IF x < lo THEN lo ELSE IF x > hi THEN hi ELSE x

\* a conversion without the parity test: every slice has its pairs averaged,
\* the last sample of an odd one with the 0.0 of unwrap_or
MonoSamples_AlwaysPairs(samples) ==
    [i \in 1..((Len(samples) + 1) \div 2) |->
        (samples[2 * i - 1] + (IF 2 * i <= Len(samples) THEN samples[2 * i] ELSE 0)) \div 2]

\* resampler_thread, lines 125-131: a slice of even length has its pairs averaged
MonoSamples(samples) ==
    IF Len(samples) % 2 = 0
    THEN [i \in 1..(Len(samples) \div 2) |-> (samples[2 * i - 1] + samples[2 * i]) \div 2]
    ELSE samples

\* resampler_thread, lines 134-136
Amplified(samples, gain) ==
    [i \in 1..Len(samples) |-> Clamp(samples[i] * gain, -1, 1)]

\* the output of the transform for frame number f
FrameOutput(f) == [i \in 1..OutPerFrame |-> f]

RECURSIVE FramesOutput(_, _)
\* the outputs of k frames, the first of them number f
FramesOutput(f, k) == IF k = 0 THEN <<>> ELSE FrameOutput(f) \o FramesOutput(f + 1, k - 1)

\* AudioResampler::process, lines 48-63: how many whole frames the buffer yields
ProcessFrames(buffer, input) == (Len(buffer) + Len(input)) \div ChunkSize

\* AudioResampler::process: what stays in the buffer
ProcessRest(buffer, input) ==
    SubSeq(buffer \o input, ProcessFrames(buffer, input) * ChunkSize + 1,
           Len(buffer) + Len(input))

\* AudioResampler::process, lines 53-65, when the transform fails on frame
\* number bad of the call (0: on none): the `?` of line 59 returns the error
\* and the output collected from the frames before is dropped with it
ProcessOutput(f, k, bad) == IF bad = 0 THEN FramesOutput(f, k) ELSE <<>>

\* what stays in the buffer then: line 55 has drained the frames up to the
\* failed one, the rest of the input stays
ProcessRestAfter(buffer, input, bad) ==
    IF bad = 0 THEN ProcessRest(buffer, input)
    ELSE SubSeq(buffer \o input, bad * ChunkSize + 1, Len(buffer) + Len(input))

\* a flush that keeps the padded frame's whole output
FlushOutput_Whole(buffer, f) ==
    IF buffer = <<>> THEN <<>> ELSE FrameOutput(f)

\* AudioResampler::flush, lines 86-87: the part of the padded frame's output kept
FlushOutput(buffer, f) ==
    IF buffer = <<>>
    THEN <<>>
    ELSE SubSeq(FrameOutput(f), 1,
                Min((Len(buffer) * OutPerFrame) \div ChunkSize, OutPerFrame))

(***************************************************************************)
(* Config (src/config.rs) and the build. A String is a sequence of         *)
(* characters; an Option<String> is the empty sequence (None) or a         *)
(* one-element sequence (Some). The only file that exists is the one named *)
(* "m".                                                                    *)
(***************************************************************************)
Chars == {" ", "m"}

\* the strings of at most two characters
Strings == {<<>>} \cup {<<a>> : a \in Chars} \cup {<<a, b>> : a \in Chars, b \in Chars}

None == <<>>
Some(s) == <<s>>

IsWhitespace(c) == c = " "

\* str::trim: the string without its leading and trailing whitespace
RECURSIVE TrimStart(_)
TrimStart(s) ==
    IF s # <<>> /\ IsWhitespace(Head(s)) THEN TrimStart(Tail(s)) ELSE s

RECURSIVE TrimEnd(_)
TrimEnd(s) ==
    IF s # <<>> /\ IsWhitespace(s[Len(s)]) THEN TrimEnd(SubSeq(s, 1, Len(s) - 1)) ELSE s

\* a validation that tests the string as it is
Trim_Nothing(s) == s

Trim(s) == TrimEnd(TrimStart(s))

\* Path::new(path).exists()
PathExists(path) == path = <<"m">>

SherpaFiles == <<"sherpa_encoder", "sherpa_decoder", "sherpa_joiner", "sherpa_tokens">>

\* lines 128-146: the first of the four sherpa files that is unset or not
\* found decides the error
RECURSIVE ValidateSherpa(_, _)
ValidateSherpa(c, i) ==
    IF i > Len(SherpaFiles) THEN "Ok"
    ELSE IF c[SherpaFiles[i]] = <<>> THEN "must be set when realtime_engine = sherpa-onnx"
    ELSE IF ~PathExists(c[SherpaFiles[i]]) THEN "file not found"
    ELSE ValidateSherpa(c, i + 1)

\* a validation that wants vosk_model_path whatever the engine
ValidateEngine_VoskPathAlways(c) ==
    IF c.vosk_model_path = None THEN "vosk_model_path must be set"
    ELSE IF c.realtime_engine = "sherpa-onnx" THEN ValidateSherpa(c, 1)
    ELSE IF c.realtime_engine = "vosk" THEN "Ok"
    ELSE "Unknown realtime_engine"

\* lines 111-154: the match on realtime_engine
ValidateEngine(c) ==
    CASE c.realtime_engine = "vosk" ->
            IF c.vosk_model_path = None
            THEN "vosk_model_path must be set"
            ELSE IF Trim(c.vosk_model_path[1]) = <<>>
                 THEN "vosk_model_path must not be empty"
                 ELSE "Ok"
      [] c.realtime_engine = "sherpa-onnx" -> ValidateSherpa(c, 1)
      [] OTHER -> "Unknown realtime_engine"

\* lines 162-179: the output directory and the ollama settings
ValidateRest(c) ==
    IF c.output_directory = "uncreatable"
    THEN "Failed to create output directory"
    ELSE IF ~c.ollama_enabled THEN "Ok"
    ELSE IF Trim(c.ollama_model) = <<>> THEN "ollama_model must not be empty"
    ELSE IF Trim(c.ollama_host) = <<>> THEN "ollama_host must not be empty"
    ELSE IF c.ollama_timeout_secs = 0 THEN "ollama_timeout_secs must be greater than 0"
    ELSE "Ok"

\* Config::validate, lines 99-182: "Ok" or the message of the first error
Validate(c) ==
    IF c.sample_rate < 8000 \/ c.sample_rate > 48000
    THEN "sample_rate must be between 8000 and 48000 Hz"
    ELSE IF c.audio_gain <= 0 \/ c.audio_gain > 10
    THEN "audio_gain must be between 0.0 and 10.0"
    ELSE IF ValidateEngine(c) # "Ok" THEN ValidateEngine(c)
    ELSE ValidateRest(c)

\* a config.toml that passes validation and selects Vosk
DefaultConfig ==
    [sample_rate |-> 16000,
     audio_gain |-> AudioGain,
     output_directory |-> "exists",
     vosk_model_path |-> Some(<<"m">>),
     realtime_engine |-> "vosk",
     sherpa_encoder |-> <<>>,
     sherpa_decoder |-> <<>>,
     sherpa_joiner |-> <<>>,
     sherpa_tokens |-> <<>>,
     ollama_enabled |-> FALSE,
     ollama_host |-> <<"m">>,
     ollama_model |-> <<"m">>,
     ollama_timeout_secs |-> 30]

\* create_realtime_recognizer, recognition.rs lines 47-92: "Ok" or the kind
\* of the error; loaded tells whether the engine could open its model files
create_realtime_recognizer(c, feature, loaded) ==
    CASE c.realtime_engine = "vosk" ->
            IF c.vosk_model_path = None THEN "vosk_model_path must be set"
            ELSE IF loaded THEN "Ok" ELSE "model"
      [] c.realtime_engine = "sherpa-onnx" ->
            IF ~feature THEN "compiled without the sherpa-engine feature"
            ELSE IF loaded THEN "Ok" ELSE "model"
      [] OTHER -> "Unknown realtime_engine"

\* the state after Config::load returned Ok (main.rs line 464), in a build
\* without the sherpa-engine feature
EInit ==
    /\ config = DefaultConfig
    /\ sherpa_engine = FALSE
    /\ validation = "Ok"
    /\ now = 0

(* ---- the conversion of writer_thread, writer.rs lines 47-50 and 59-62 ---- *)

SampleSteps == 4    \* a sample n stands for the f32 value n / SampleSteps
I16_MAX == 32767    \* i16::MAX
I16_MIN == -32768   \* i16::MIN

\* the f32 values a popped sample can have: -1.0 to 1.0 and one step beyond
Floats == (-(SampleSteps + 1))..(SampleSteps + 1)

\* `as i16` of the f32 value p / d: the fraction is dropped (rounding toward
\* zero) and the result saturates at the ends of i16
AsI16(p, d) ==
    LET truncated == IF p >= 0 THEN p \div d ELSE -((-p) \div d)
    IN  Clamp(truncated, I16_MIN, I16_MAX)

\* lines 48 and 60: (sample.clamp(-1.0, 1.0) * i16::MAX as f32) as i16
sample_i16(sample) ==
    AsI16(Clamp(sample, -SampleSteps, SampleSteps) * I16_MAX, SampleSteps)

\* before the writer has popped anything
WInit ==
    /\ f32_samples = <<>>
    /\ wav = <<>>

\* AudioResampler::new, resampler.rs lines 16-40: nothing passed in yet
RInit ==
    /\ fed = <<>>
    /\ transformed = <<>>
    /\ returned = "none"

\* the queues AudioPipeline::new creates
QueueNames == {"raw_queue", "resampled_queue_writer", "resampled_queue_realtime"}

\* Mutex::new: nobody holds a guard
MInit == mutex = [q \in QueueNames |-> "free"]

\* A file of the output directory: the timestamp its name starts with, in
\* seconds since RecordingSession::start took the session's, and the rest
\* of the name
NoPath == [stamp |-> -1, rest |-> ""]

\* writer.rs lines 11-15: generate_filename names the file after Local::now()
generate_filename(time) == [stamp |-> time, rest |-> ".wav"]

\* writer::build_wav_path(output_directory, base_name), called at main.rs
\* line 118: the audio file named after the session's base name
build_wav_path(base_name) == [stamp |-> base_name, rest |-> ".wav"]

\* main.rs lines 119-120
RealtimeTxtPath(base_name) == [stamp |-> base_name, rest |-> "_real-time.txt"]

\* stop() has not returned a RecordingOutput yet
NoOutput == [wav_path |-> NoPath, realtime_txt_path |-> NoPath, base_name |-> -1]

WorkerNames == <<"resampler", "writer", "recognition", "text_writer">>

\* The pc of the worker that RecordingSession.threads holds at index i
WorkerPc(i) ==
    CASE i = 1 -> resampler.pc
      [] i = 2 -> writer.pc
      [] i = 3 -> recognition.pc
      [] i = 4 -> text_writer.pc

\* a channel that closes when the session drops its Sender, clone or no clone
TextSenders_SessionOnly == IF text_tx THEN 1 ELSE 0

\* Senders of the text channel that are alive: the session's, and the clone
\* the recognition thread moved into its recognizer
TextSenders == (IF text_tx THEN 1 ELSE 0) + (IF recognition.sender THEN 1 ELSE 0)

\* the Receiver lives as long as text_writer_thread runs
TextReceiverAlive == text_writer.pc # "done"

SInit ==
    /\ stop_signal = FALSE
    /\ stream = "playing"
    /\ text_tx = TRUE
    /\ raw_queue = <<>>
    /\ resampled_queue_writer = <<>>
    /\ resampled_queue_realtime = <<>>
    /\ resampler = [pc |-> "new", buffer |-> <<>>, out |-> <<>>, back |-> "none",
                    frames |-> 0, to_writer |-> <<>>, to_realtime |-> <<>>,
                    dropped |-> FALSE, errors |-> 0]
    /\ writer = [pc |-> "new", written |-> 0, finalized |-> FALSE, filepath |-> NoPath]
    /\ recognition = [pc |-> "new", sender |-> TRUE, finalized |-> 0, sent |-> 0,
                      error |-> "none", calls |-> 0, rejects |-> {}]
    /\ text_channel = <<>>
    /\ text_writer = [pc |-> "new", line_count |-> 0, unflushed |-> 0, lines |-> <<>>]
    /\ wav_path_channel = <<>>
    /\ session = [pc |-> "recording", joined |-> 0,
                  base_name |-> 0,
                  wav_path |-> build_wav_path(0),
                  realtime_txt_path |-> RealtimeTxtPath(0),
                  reported |-> FALSE,
                  output |-> NoOutput]
    /\ failed = {}
    /\ captured = 0
    /\ pending_at_stop = FALSE

(* ---- capture callback, main.rs lines 90-94 ---- *)

\* cpal runs the callback while the stream exists: raw_queue.push(data.to_vec())
Capture ==
    /\ stream = "playing"
    /\ captured < MaxCaptures
    /\ \E n \in CaptureLens :
        raw_queue' = PushExtend(raw_queue, Silence(n), BufferSize)
    /\ captured' = captured + 1
    /\ UNCHANGED <<stop_signal, stream, text_tx, resampled_queue_writer,
                   resampled_queue_realtime, resampler, writer, recognition,
                   text_channel, text_writer, wav_path_channel, session,
                   pending_at_stop>>
    /\ UNCHANGED <<failed, qvars, lvars, evars, wvars, rvars, mvars>>

(* ---- resampler_thread, resampler.rs lines 94-215 ---- *)

\* lines 111-117: AudioResampler::new succeeds, or fails and the thread returns
ResamplerNew ==
    /\ resampler.pc = "new"
    /\ \E ok \in BOOLEAN :
        /\ resampler' = [resampler EXCEPT !.pc = IF ok THEN "loop" ELSE "done"]
        /\ failed' = IF ok THEN failed ELSE failed \cup {"resampler"}
    /\ UNCHANGED <<stop_signal, stream, text_tx, raw_queue, resampled_queue_writer,
                   resampled_queue_realtime, writer, recognition, text_channel,
                   text_writer, wav_path_channel, session, captured, pending_at_stop>>
    /\ UNCHANGED <<qvars, lvars, evars, wvars, rvars, mvars>>

\* lines 123-154 and 161-192: a popped slice is averaged, amplified and
\* processed; a non-empty result is pushed to both queues before the loop
\* named by back goes on, and an error is logged (lines 151-153, 189-191)
ResamplerTake(back) ==
    LET count == PopCount(raw_queue, LargePop)
        samples == DrainTaken(raw_queue, count)
        amplified == Amplified(MonoSamples(samples), AudioGain)
        k == ProcessFrames(resampler.buffer, amplified)
    IN  /\ raw_queue' = DrainRest(raw_queue, count)
        /\ \E bad \in 0..k :
            LET out == ProcessOutput(resampler.frames + 1, k, bad) IN
            resampler' = [resampler EXCEPT
                !.buffer = ProcessRestAfter(resampler.buffer, amplified, bad),
                !.out = out,
                !.frames = resampler.frames + (IF bad = 0 THEN k ELSE bad),
                !.errors = IF bad = 0 THEN resampler.errors ELSE resampler.errors + 1,
                !.back = IF out = <<>> THEN "none" ELSE back,
                !.pc = IF out = <<>> THEN back ELSE "push_writer"]

\* lines 122-158: one turn of the loop that runs until the stop signal is seen;
\* with nothing to pop the thread sleeps and comes back
ResamplerLoop ==
    /\ resampler.pc = "loop"
    /\ IF stop_signal
       THEN /\ resampler' = [resampler EXCEPT !.pc = "drain"]
            /\ UNCHANGED raw_queue
       ELSE IF raw_queue = <<>>
            THEN UNCHANGED <<resampler, raw_queue>>
            ELSE ResamplerTake("loop")
    /\ UNCHANGED <<stop_signal, stream, text_tx, resampled_queue_writer,
                   resampled_queue_realtime, writer, recognition, text_channel,
                   text_writer, wav_path_channel, session, captured, pending_at_stop>>
    /\ UNCHANGED <<failed, qvars, lvars, evars, wvars, rvars, mvars>>

\* lines 161-193: drain what is left in raw_queue, until a pop finds it empty
ResamplerDrain ==
    /\ resampler.pc = "drain"
    /\ IF raw_queue = <<>>
       THEN /\ resampler' = [resampler EXCEPT !.pc = "flush"]
            /\ UNCHANGED raw_queue
       ELSE ResamplerTake("drain")
    /\ UNCHANGED <<stop_signal, stream, text_tx, resampled_queue_writer,
                   resampled_queue_realtime, writer, recognition, text_channel,
                   text_writer, wav_path_channel, session, captured, pending_at_stop>>
    /\ UNCHANGED <<failed, qvars, lvars, evars, wvars, rvars, mvars>>

\* lines 197-212: flush the partial frame; the buffer is cleared whatever the
\* outcome, a non-empty result is pushed to both queues and an error of the
\* transform (resampler.rs line 83) is logged
ResamplerFlush ==
    /\ resampler.pc = "flush"
    /\ \E ok \in BOOLEAN :
        LET result == IF ok THEN FlushOutput(resampler.buffer, resampler.frames + 1)
                      ELSE <<>>
        IN  /\ ~ok => resampler.buffer # <<>>
            /\ resampler' = [resampler EXCEPT
                    !.buffer = <<>>,
                    !.out = result,
                    !.frames = IF resampler.buffer = <<>> THEN resampler.frames
                               ELSE resampler.frames + 1,
                    !.errors = IF ok THEN resampler.errors ELSE resampler.errors + 1,
                    !.back = IF result = <<>> THEN "none" ELSE "done",
                    !.pc = IF result = <<>> THEN "done" ELSE "push_writer"]
    /\ UNCHANGED <<stop_signal, stream, text_tx, raw_queue, resampled_queue_writer,
                   resampled_queue_realtime, writer, recognition, text_channel,
                   text_writer, wav_path_channel, session, captured, pending_at_stop>>
    /\ UNCHANGED <<failed, qvars, lvars, evars, wvars, rvars, mvars>>

\* the batches a queue has accepted, with the batch out when the push of it
\* into queue q returns true
Accepted(history, q, out) ==
    IF PushOverflows(q, out, BufferSize) THEN history ELSE Append(history, out)

\* lines 143, 181, 201: resampled_queue_writer.push(resampled)
ResamplerPushWriter ==
    /\ resampler.pc = "push_writer"
    /\ resampled_queue_writer' = PushExtend(resampled_queue_writer, resampler.out, BufferSize)
    /\ resampler' = [resampler EXCEPT
            !.pc = "push_realtime",
            !.to_writer = Accepted(@, resampled_queue_writer, resampler.out),
            !.dropped = @ \/ PushOverflows(resampled_queue_writer, resampler.out, BufferSize)]
    /\ UNCHANGED <<stop_signal, stream, text_tx, raw_queue, resampled_queue_realtime,
                   writer, recognition, text_channel, text_writer, wav_path_channel,
                   session, captured, pending_at_stop>>
    /\ UNCHANGED <<failed, qvars, lvars, evars, wvars, rvars, mvars>>

\* a resampler that forgets the recognition side
ResamplerPushRealtime_Skipped ==
    /\ resampler.pc = "push_realtime"
    /\ resampler' = [resampler EXCEPT !.pc = resampler.back, !.out = <<>>, !.back = "none"]
    /\ UNCHANGED <<stop_signal, stream, text_tx, raw_queue, resampled_queue_writer,
                   resampled_queue_realtime, writer, recognition, text_channel,
                   text_writer, wav_path_channel, session, captured, pending_at_stop>>
    /\ UNCHANGED <<failed, qvars, lvars, evars, wvars, rvars, mvars>>

\* a resampler that hands a batch to the recognition side only when the
\* writer side took it
ResamplerPushRealtime_AfterWriter ==
    LET taken == /\ resampler.to_writer # <<>>
                 /\ resampler.to_writer[Len(resampler.to_writer)] = resampler.out
    IN
    /\ resampler.pc = "push_realtime"
    /\ resampled_queue_realtime' =
            IF taken
            THEN PushExtend(resampled_queue_realtime, resampler.out, BufferSize)
            ELSE resampled_queue_realtime
    /\ resampler' = [resampler EXCEPT
            !.pc = resampler.back, !.out = <<>>, !.back = "none",
            !.to_realtime = IF taken
                            THEN Accepted(@, resampled_queue_realtime, resampler.out)
                            ELSE @,
            !.dropped = TRUE]
    /\ UNCHANGED <<stop_signal, stream, text_tx, raw_queue, resampled_queue_writer,
                   writer, recognition, text_channel, text_writer, wav_path_channel,
                   session, captured, pending_at_stop>>
    /\ UNCHANGED <<failed, qvars, lvars, evars, wvars, rvars, mvars>>

\* lines 146, 184, 204: resampled_queue_vosk.push(resampled_clone)
ResamplerPushRealtime ==
    /\ resampler.pc = "push_realtime"
    /\ resampled_queue_realtime' = PushExtend(resampled_queue_realtime, resampler.out, BufferSize)
    /\ resampler' = [resampler EXCEPT
            !.pc = resampler.back, !.out = <<>>, !.back = "none",
            !.to_realtime = Accepted(@, resampled_queue_realtime, resampler.out),
            !.dropped = @ \/ PushOverflows(resampled_queue_realtime, resampler.out, BufferSize)]
    /\ UNCHANGED <<stop_signal, stream, text_tx, raw_queue, resampled_queue_writer,
                   writer, recognition, text_channel, text_writer, wav_path_channel,
                   session, captured, pending_at_stop>>
    /\ UNCHANGED <<failed, qvars, lvars, evars, wvars, rvars, mvars>>

(* ---- writer_thread, writer.rs lines 33-69, as spawned at main.rs 129-138 ---- *)

\* lines 40-43: the file is created, or the thread returns the error
WriterNew ==
    /\ writer.pc = "new"
    /\ \E ok \in BOOLEAN :
        /\ writer' = [writer EXCEPT !.pc = IF ok THEN "loop" ELSE "done",
                                    !.filepath = generate_filename(now)]
        /\ failed' = IF ok THEN failed ELSE failed \cup {"writer"}
    /\ UNCHANGED <<stop_signal, stream, text_tx, raw_queue, resampled_queue_writer,
                   resampled_queue_realtime, resampler, recognition, text_channel,
                   text_writer, wav_path_channel, session, captured, pending_at_stop>>
    /\ UNCHANGED <<qvars, lvars, evars, wvars, rvars, mvars>>

\* lines 47-51 and 58-62: pop up to 1024 samples and write each; a failed
\* write_sample returns the error from the thread, with the samples before
\* it written
WriterTake ==
    LET count == PopCount(resampled_queue_writer, WriterPop) IN
    /\ resampled_queue_writer' = DrainRest(resampled_queue_writer, count)
    /\ \E k \in 0..count :
        /\ writer' = IF k = count
                      THEN [writer EXCEPT !.written = writer.written + count]
                      ELSE [writer EXCEPT !.written = writer.written + k, !.pc = "done"]
        /\ failed' = IF k = count THEN failed ELSE failed \cup {"writer"}

\* lines 45-55: one turn of the loop that runs until the stop signal is seen
WriterLoop ==
    /\ writer.pc = "loop"
    /\ IF stop_signal
       THEN /\ writer' = [writer EXCEPT !.pc = "drain"]
            /\ UNCHANGED <<resampled_queue_writer, failed>>
       ELSE IF resampled_queue_writer = <<>>
            THEN UNCHANGED <<writer, resampled_queue_writer, failed>>
            ELSE WriterTake
    /\ UNCHANGED <<stop_signal, stream, text_tx, raw_queue, resampled_queue_realtime,
                   resampler, recognition, text_channel, text_writer,
                   wav_path_channel, session, captured, pending_at_stop>>
    /\ UNCHANGED <<qvars, lvars, evars, wvars, rvars, mvars>>

\* a writer that finalizes as soon as it has seen the stop flag
WriterDrain_Skipped ==
    /\ writer.pc = "drain"
    /\ writer' = [writer EXCEPT !.pc = "finalize"]
    /\ UNCHANGED <<resampled_queue_writer, failed>>
    /\ UNCHANGED <<stop_signal, stream, text_tx, raw_queue, resampled_queue_realtime,
                   resampler, recognition, text_channel, text_writer,
                   wav_path_channel, session, captured, pending_at_stop>>
    /\ UNCHANGED <<qvars, lvars, evars, wvars, rvars, mvars>>

\* lines 58-63: drain until a pop finds the queue empty
WriterDrain ==
    /\ writer.pc = "drain"
    /\ IF resampled_queue_writer = <<>>
       THEN /\ writer' = [writer EXCEPT !.pc = "finalize"]
            /\ UNCHANGED <<resampled_queue_writer, failed>>
       ELSE WriterTake
    /\ UNCHANGED <<stop_signal, stream, text_tx, raw_queue, resampled_queue_realtime,
                   resampler, recognition, text_channel, text_writer,
                   wav_path_channel, session, captured, pending_at_stop>>
    /\ UNCHANGED <<qvars, lvars, evars, wvars, rvars, mvars>>

\* writer.rs lines 65-68 and main.rs lines 131-136: finalize the file and
\* report its path, or return the error without a report
WriterFinalize ==
    /\ writer.pc = "finalize"
    /\ \E ok \in BOOLEAN :
        /\ writer' = [writer EXCEPT !.pc = "done", !.finalized = ok]
        /\ wav_path_channel' = IF ok THEN Append(wav_path_channel, writer.filepath)
                               ELSE wav_path_channel
        /\ failed' = IF ok THEN failed ELSE failed \cup {"writer"}
    /\ UNCHANGED <<stop_signal, stream, text_tx, raw_queue, resampled_queue_writer,
                   resampled_queue_realtime, resampler, recognition, text_channel,
                   text_writer, session, captured, pending_at_stop>>
    /\ UNCHANGED <<qvars, lvars, evars, wvars, rvars, mvars>>

(* ---- realtime_recognition_thread, recognition.rs lines 180-207 ---- *)

\* Sender::send: the event is queued while the Receiver lives and lost otherwise
Sent(channel, event) == IF TextReceiverAlive THEN Append(channel, event) ELSE channel

\* the RecognizedText a recognizer sends next; id numbers the send() calls of
\* the session and stands for the event's text and timestamp
Event(is_final) == [id |-> recognition.sent + 1, is_final |-> is_final]

\* a thread whose failure to build the recognizer stops the whole session
RecognitionNew_HaltsSession ==
    /\ recognition.pc = "new"
    /\ \E loaded \in BOOLEAN :
        LET result == create_realtime_recognizer(config, sherpa_engine, loaded)
            ok == result = "Ok"
        IN  /\ recognition' = [recognition EXCEPT
                    !.pc = IF ok THEN "loop" ELSE "done",
                    !.sender = ok,
                    !.error = IF ok THEN "none" ELSE result]
            /\ failed' = IF ok THEN failed ELSE failed \cup {"recognition"}
            /\ stop_signal' = (stop_signal \/ ~ok)
    /\ UNCHANGED <<stream, text_tx, raw_queue, resampled_queue_writer,
                   resampled_queue_realtime, resampler, writer, text_channel,
                   text_writer, wav_path_channel, session, captured, pending_at_stop>>
    /\ UNCHANGED <<qvars, lvars, evars, wvars, rvars, mvars>>

\* line 188: the recognizer is built around the Sender clone; if that fails
\* the clone is dropped with the error
RecognitionNew ==
    /\ recognition.pc = "new"
    /\ \E loaded \in BOOLEAN :
        LET result == create_realtime_recognizer(config, sherpa_engine, loaded)
            ok == result = "Ok"
        IN  /\ recognition' = [recognition EXCEPT
                    !.pc = IF ok THEN "loop" ELSE "done",
                    !.sender = ok,
                    !.error = IF ok THEN "none" ELSE result]
            /\ failed' = IF ok THEN failed ELSE failed \cup {"recognition"}
    /\ UNCHANGED <<stop_signal, stream, text_tx, raw_queue, resampled_queue_writer,
                   resampled_queue_realtime, resampler, writer, text_channel,
                   text_writer, wav_path_channel, session, captured, pending_at_stop>>
    /\ UNCHANGED <<qvars, lvars, evars, wvars, rvars, mvars>>

\* a process_audio whose events carry is_final = true
RecognitionTake_Final ==
    LET count == PopCount(resampled_queue_realtime, LargePop) IN
    /\ resampled_queue_realtime' = DrainRest(resampled_queue_realtime, count)
    /\ \E emits \in BOOLEAN :
        /\ text_channel' = IF emits THEN Sent(text_channel, Event(TRUE))
                           ELSE text_channel
        /\ recognition' = [recognition EXCEPT
                !.calls = recognition.calls + 1,
                !.sent = IF emits THEN recognition.sent + 1 ELSE recognition.sent]
    /\ UNCHANGED failed

\* a process_audio that returns the engine's error to its caller
process_audio_Propagates(outcome) == IF outcome = "rejected" THEN "Err" ELSE "Ok"

\* VoskRecognizer::process_audio, lines 124-160, by what the engine does with
\* the batch: an utterance ends and its text is sent ("event"), nothing is
\* sent ("silent"), or accept_waveform fails ("rejected"), which line 156
\* logs. Each way it returns Ok, as sherpa.rs lines 191-218 always do.
process_audio(outcome) == "Ok"

\* lines 191-192 and 199-200: pop up to 4096 samples and hand them to
\* process_audio, which sends an event with is_final = false or none; the
\* `?` returns an Err from the thread and drops the recognizer
RecognitionTake ==
    LET count == PopCount(resampled_queue_realtime, LargePop) IN
    /\ resampled_queue_realtime' = DrainRest(resampled_queue_realtime, count)
    /\ \E outcome \in {"event", "silent", "rejected"} :
        LET call == recognition.calls + 1 IN
        /\ text_channel' = IF outcome = "event" THEN Sent(text_channel, Event(FALSE))
                           ELSE text_channel
        /\ IF process_audio(outcome) = "Ok"
           THEN /\ recognition' = [recognition EXCEPT
                        !.calls = call,
                        !.sent = IF outcome = "event" THEN recognition.sent + 1
                                 ELSE recognition.sent,
                        !.rejects = IF outcome = "rejected"
                                    THEN recognition.rejects \cup {call}
                                    ELSE recognition.rejects]
                /\ UNCHANGED failed
           ELSE /\ recognition' = [recognition EXCEPT
                        !.calls = call,
                        !.rejects = recognition.rejects \cup {call},
                        !.pc = "done",
                        !.sender = FALSE,
                        !.error = "process_audio"]
                /\ failed' = failed \cup {"recognition"}

\* lines 190-196: one turn of the loop that runs until the stop signal is seen
RecognitionLoop ==
    /\ recognition.pc = "loop"
    /\ IF stop_signal
       THEN /\ recognition' = [recognition EXCEPT !.pc = "drain"]
            /\ UNCHANGED <<resampled_queue_realtime, text_channel, failed>>
       ELSE IF resampled_queue_realtime = <<>>
            THEN UNCHANGED <<recognition, resampled_queue_realtime, text_channel, failed>>
            ELSE RecognitionTake
    /\ UNCHANGED <<stop_signal, stream, text_tx, raw_queue, resampled_queue_writer,
                   resampler, writer, text_writer, wav_path_channel, session,
                   captured, pending_at_stop>>
    /\ UNCHANGED <<qvars, lvars, evars, wvars, rvars, mvars>>

\* a recognition thread that finalizes as soon as it has seen the stop flag
RecognitionDrain_Skipped ==
    /\ recognition.pc = "drain"
    /\ recognition' = [recognition EXCEPT !.pc = "finalize"]
    /\ UNCHANGED <<resampled_queue_realtime, text_channel, failed>>
    /\ UNCHANGED <<stop_signal, stream, text_tx, raw_queue, resampled_queue_writer,
                   resampler, writer, text_writer, wav_path_channel, session,
                   captured, pending_at_stop>>
    /\ UNCHANGED <<qvars, lvars, evars, wvars, rvars, mvars>>

\* lines 199-201: drain until a pop finds the queue empty
RecognitionDrain ==
    /\ recognition.pc = "drain"
    /\ IF resampled_queue_realtime = <<>>
       THEN /\ recognition' = [recognition EXCEPT !.pc = "finalize"]
            /\ UNCHANGED <<resampled_queue_realtime, text_channel, failed>>
       ELSE RecognitionTake
    /\ UNCHANGED <<stop_signal, stream, text_tx, raw_queue, resampled_queue_writer,
                   resampler, writer, text_writer, wav_path_channel, session,
                   captured, pending_at_stop>>
    /\ UNCHANGED <<qvars, lvars, evars, wvars, rvars, mvars>>

\* line 203: finalize() sends an event with is_final = true, or none
RecognitionFinalize ==
    /\ recognition.pc = "finalize"
    /\ \E emits \in BOOLEAN :
        /\ text_channel' = IF emits THEN Sent(text_channel, Event(TRUE))
                           ELSE text_channel
        /\ recognition' = [recognition EXCEPT
                !.pc = "return",
                !.finalized = recognition.finalized + 1,
                !.sent = IF emits THEN recognition.sent + 1 ELSE recognition.sent]
    /\ UNCHANGED <<stop_signal, stream, text_tx, raw_queue, resampled_queue_writer,
                   resampled_queue_realtime, resampler, writer, text_writer,
                   wav_path_channel, session, captured, pending_at_stop>>
    /\ UNCHANGED <<failed, qvars, lvars, evars, wvars, rvars, mvars>>

\* lines 204-207: the function returns and the recognizer, with its Sender, is dropped
RecognitionReturn ==
    /\ recognition.pc = "return"
    /\ recognition' = [recognition EXCEPT !.pc = "done", !.sender = FALSE]
    /\ UNCHANGED <<stop_signal, stream, text_tx, raw_queue, resampled_queue_writer,
                   resampled_queue_realtime, resampler, writer, text_channel,
                   text_writer, wav_path_channel, session, captured, pending_at_stop>>
    /\ UNCHANGED <<failed, qvars, lvars, evars, wvars, rvars, mvars>>

(* ---- text_writer_thread, text_writer.rs lines 7-47 ---- *)

\* lines 13-14: the transcript file is created, or the thread returns the
\* error and the Receiver is dropped with whatever was queued
TextWriterNew ==
    /\ text_writer.pc = "new"
    /\ \E ok \in BOOLEAN :
        /\ text_writer' = [text_writer EXCEPT !.pc = IF ok THEN "recv" ELSE "done"]
        /\ text_channel' = IF ok THEN text_channel ELSE <<>>
        /\ failed' = IF ok THEN failed ELSE failed \cup {"text_writer"}
    /\ UNCHANGED <<stop_signal, stream, text_tx, raw_queue, resampled_queue_writer,
                   resampled_queue_realtime, resampler, writer, recognition,
                   wav_path_channel, session, captured, pending_at_stop>>
    /\ UNCHANGED <<qvars, lvars, evars, wvars, rvars, mvars>>

\* a loop without the periodic flush of lines 37-39
UnflushedAfter_NoPeriodic(unflushed, line_count, is_final) ==
    IF is_final THEN 0 ELSE unflushed + 1

\* lines 32-39: lines written and not flushed after handling one event
UnflushedAfter(unflushed, line_count, is_final) ==
    IF is_final \/ line_count % 5 = 0 THEN 0 ELSE unflushed + 1

\* lines 20-40: recv() returns the next event, which is written as one line;
\* a failed write or flush returns the error and drops the Receiver
TextWriterRecv ==
    /\ text_writer.pc = "recv"
    /\ text_channel # <<>>
    /\ \E ok \in BOOLEAN :
        /\ text_channel' = IF ok THEN Tail(text_channel) ELSE <<>>
        /\ text_writer' =
                IF ok
                THEN [text_writer EXCEPT
                        !.line_count = text_writer.line_count + 1,
                        !.lines = Append(text_writer.lines, Head(text_channel)),
                        !.unflushed = UnflushedAfter(text_writer.unflushed,
                                                     text_writer.line_count + 1,
                                                     Head(text_channel).is_final)]
                ELSE [text_writer EXCEPT !.pc = "done"]
        /\ failed' = IF ok THEN failed ELSE failed \cup {"text_writer"}
    /\ UNCHANGED <<stop_signal, stream, text_tx, raw_queue, resampled_queue_writer,
                   resampled_queue_realtime, resampler, writer, recognition,
                   wav_path_channel, session, captured, pending_at_stop>>
    /\ UNCHANGED <<qvars, lvars, evars, wvars, rvars, mvars>>

\* a loop that ends as soon as it finds the channel empty (try_recv for recv)
TextWriterClose_Early ==
    /\ text_writer.pc = "recv"
    /\ text_channel = <<>>
    /\ text_writer' = [text_writer EXCEPT !.pc = "done", !.unflushed = 0]
    /\ UNCHANGED <<stop_signal, stream, text_tx, raw_queue, resampled_queue_writer,
                   resampled_queue_realtime, resampler, writer, recognition,
                   text_channel, wav_path_channel, session, captured, pending_at_stop>>
    /\ UNCHANGED <<failed, qvars, lvars, evars, wvars, rvars, mvars>>

\* lines 20 and 43-46: recv() fails once the channel is empty and every Sender
\* is dropped; the final flush follows and the thread returns
TextWriterClose ==
    /\ text_writer.pc = "recv"
    /\ text_channel = <<>>
    /\ TextSenders = 0
    /\ text_writer' = [text_writer EXCEPT !.pc = "done", !.unflushed = 0]
    /\ UNCHANGED <<stop_signal, stream, text_tx, raw_queue, resampled_queue_writer,
                   resampled_queue_realtime, resampler, writer, recognition,
                   text_channel, wav_path_channel, session, captured, pending_at_stop>>
    /\ UNCHANGED <<failed, qvars, lvars, evars, wvars, rvars, mvars>>

(* ---- RecordingSession::stop, main.rs lines 183-209 ---- *)

\* line 187: stop() is called and stores true in stop_signal
StopStore ==
    /\ session.pc = "recording"
    /\ stop_signal' = TRUE
    /\ session' = [session EXCEPT !.pc = "drop_stream"]
    /\ pending_at_stop' = (/\ raw_queue # <<>>
                            /\ resampler.pc = "loop"
                            /\ writer.pc = "loop"
                            /\ recognition.pc = "loop"
                            /\ text_writer.pc = "recv")
    /\ UNCHANGED <<stream, text_tx, raw_queue, resampled_queue_writer,
                   resampled_queue_realtime, resampler, writer, recognition,
                   text_channel, text_writer, wav_path_channel, captured>>
    /\ UNCHANGED <<failed, qvars, lvars, evars, wvars, rvars, mvars>>

\* a stop() that goes to its joins with the stream and its Sender still held
StopDropStream_Skipped ==
    /\ session.pc = "drop_stream"
    /\ session' = [session EXCEPT !.pc = "join"]
    /\ UNCHANGED <<stop_signal, stream, text_tx, raw_queue, resampled_queue_writer,
                   resampled_queue_realtime, resampler, writer, recognition,
                   text_channel, text_writer, wav_path_channel, captured,
                   pending_at_stop>>
    /\ UNCHANGED <<failed, qvars, lvars, evars, wvars, rvars, mvars>>

\* line 190: drop(self.stream)
StopDropStream ==
    /\ session.pc = "drop_stream"
    /\ stream' = "dropped"
    /\ session' = [session EXCEPT !.pc = "drop_text_tx"]
    /\ UNCHANGED <<stop_signal, text_tx, raw_queue, resampled_queue_writer,
                   resampled_queue_realtime, resampler, writer, recognition,
                   text_channel, text_writer, wav_path_channel, captured,
                   pending_at_stop>>
    /\ UNCHANGED <<failed, qvars, lvars, evars, wvars, rvars, mvars>>

\* stop() without line 193: the session keeps its Sender while it joins
StopDropTextTx_Kept ==
    /\ session.pc = "drop_text_tx"
    /\ text_tx' = text_tx
    /\ session' = [session EXCEPT !.pc = "join"]
    /\ UNCHANGED <<stop_signal, stream, raw_queue, resampled_queue_writer,
                   resampled_queue_realtime, resampler, writer, recognition,
                   text_channel, text_writer, wav_path_channel, captured,
                   pending_at_stop>>
    /\ UNCHANGED <<failed, qvars, lvars, evars, wvars, rvars, mvars>>

\* line 193: drop(self.text_tx)
StopDropTextTx ==
    /\ session.pc = "drop_text_tx"
    /\ text_tx' = FALSE
    /\ session' = [session EXCEPT !.pc = "join"]
    /\ UNCHANGED <<stop_signal, stream, raw_queue, resampled_queue_writer,
                   resampled_queue_realtime, resampler, writer, recognition,
                   text_channel, text_writer, wav_path_channel, captured,
                   pending_at_stop>>
    /\ UNCHANGED <<failed, qvars, lvars, evars, wvars, rvars, mvars>>

\* a stop() that does not wait for the thread it joins
StopJoin_NoWait ==
    /\ session.pc = "join"
    /\ session' = [session EXCEPT
            !.joined = session.joined + 1,
            !.pc = IF session.joined + 1 = Len(WorkerNames) THEN "try_recv" ELSE "join"]
    /\ UNCHANGED <<stop_signal, stream, text_tx, raw_queue, resampled_queue_writer,
                   resampled_queue_realtime, resampler, writer, recognition,
                   text_channel, text_writer, wav_path_channel, captured,
                   pending_at_stop>>
    /\ UNCHANGED <<failed, qvars, lvars, evars, wvars, rvars, mvars>>

\* a stop() that gives up joining at the first thread that ended in an error
StopJoin_StopsAtFailure ==
    /\ session.pc = "join"
    /\ WorkerPc(session.joined + 1) = "done"
    /\ session' = [session EXCEPT
            !.joined = session.joined + 1,
            !.pc = IF \/ session.joined + 1 = Len(WorkerNames)
                      \/ WorkerNames[session.joined + 1] \in failed
                   THEN "try_recv" ELSE "join"]
    /\ UNCHANGED <<stop_signal, stream, text_tx, raw_queue, resampled_queue_writer,
                   resampled_queue_realtime, resampler, writer, recognition,
                   text_channel, text_writer, wav_path_channel, captured,
                   pending_at_stop>>
    /\ UNCHANGED <<failed, qvars, lvars, evars, wvars, rvars, mvars>>

\* lines 196-198: join the next thread of self.threads, once it has finished;
\* `let _` drops the result, so a thread that panicked counts as one that
\* returned
StopJoin ==
    /\ session.pc = "join"
    /\ WorkerPc(session.joined + 1) = "done"
    /\ session' = [session EXCEPT
            !.joined = session.joined + 1,
            !.pc = IF session.joined + 1 = Len(WorkerNames) THEN "try_recv" ELSE "join"]
    /\ UNCHANGED <<stop_signal, stream, text_tx, raw_queue, resampled_queue_writer,
                   resampled_queue_realtime, resampler, writer, recognition,
                   text_channel, text_writer, wav_path_channel, captured,
                   pending_at_stop>>
    /\ UNCHANGED <<failed, qvars, lvars, evars, wvars, rvars, mvars>>

\* a stop() that clears the flag before it returns
StopReturn_ClearsFlag ==
    /\ session.pc = "try_recv"
    /\ session' = [session EXCEPT
            !.pc = "stopped",
            !.reported = wav_path_channel # <<>>,
            !.output = [wav_path |-> IF wav_path_channel # <<>>
                                     THEN Head(wav_path_channel)
                                     ELSE session.wav_path,
                        realtime_txt_path |-> session.realtime_txt_path,
                        base_name |-> session.base_name]]
    /\ wav_path_channel' = IF wav_path_channel # <<>> THEN Tail(wav_path_channel)
                           ELSE wav_path_channel
    /\ stop_signal' = FALSE
    /\ UNCHANGED <<stream, text_tx, raw_queue, resampled_queue_writer,
                   resampled_queue_realtime, resampler, writer, recognition,
                   text_channel, text_writer, captured, pending_at_stop>>
    /\ UNCHANGED <<failed, qvars, lvars, evars, wvars, rvars, mvars>>

\* lines 201-208: the reported path if try_recv finds one, else the
\* precomputed one, with the transcript path and the base name
StopReturn ==
    /\ session.pc = "try_recv"
    /\ session' = [session EXCEPT
            !.pc = "stopped",
            !.reported = wav_path_channel # <<>>,
            !.output = [wav_path |-> IF wav_path_channel # <<>>
                                     THEN Head(wav_path_channel)
                                     ELSE session.wav_path,
                        realtime_txt_path |-> session.realtime_txt_path,
                        base_name |-> session.base_name]]
    /\ wav_path_channel' = IF wav_path_channel # <<>> THEN Tail(wav_path_channel)
                           ELSE wav_path_channel
    /\ UNCHANGED <<stop_signal, stream, text_tx, raw_queue, resampled_queue_writer,
                   resampled_queue_realtime, resampler, writer, recognition,
                   text_channel, text_writer, captured, pending_at_stop>>
    /\ UNCHANGED <<failed, qvars, lvars, evars, wvars, rvars, mvars>>

ResamplerStep ==
    \/ ResamplerNew
    \/ ResamplerLoop
    \/ ResamplerDrain
    \/ ResamplerFlush
    \/ ResamplerPushWriter
    \/ ResamplerPushRealtime

WriterStep ==
    \/ WriterNew
    \/ WriterLoop
    \/ WriterDrain
    \/ WriterFinalize

RecognitionStep ==
    \/ RecognitionNew
    \/ RecognitionLoop
    \/ RecognitionDrain
    \/ RecognitionFinalize
    \/ RecognitionReturn

TextWriterStep ==
    \/ TextWriterNew
    \/ TextWriterRecv
    \/ TextWriterClose

\* what stop() does after it has been called
StopStep ==
    \/ StopDropStream
    \/ StopDropTextTx
    \/ StopJoin
    \/ StopReturn

SessionNext ==
    \/ Capture
    \/ ResamplerNew
    \/ ResamplerLoop
    \/ ResamplerDrain
    \/ ResamplerFlush
    \/ ResamplerPushWriter
    \/ ResamplerPushRealtime
    \/ WriterNew
    \/ WriterLoop
    \/ WriterDrain
    \/ WriterFinalize
    \/ RecognitionNew
    \/ RecognitionLoop
    \/ RecognitionDrain
    \/ RecognitionFinalize
    \/ RecognitionReturn
    \/ TextWriterNew
    \/ TextWriterRecv
    \/ TextWriterClose
    \/ StopStore
    \/ StopDropStream
    \/ StopDropTextTx
    \/ StopJoin
    \/ StopReturn

(***************************************************************************)
(* The recording loop of run_recording_mode (src/main.rs lines 293-390)    *)
(* and the RecordingSession instances it starts and stops. start() and     *)
(* stop() run in the loop's own thread: the loop is inside the call from   *)
(* its first step to its return.                                           *)
(***************************************************************************)
MaxCommands == 4    \* commands other than None that check_input returns

InputCommand == {"StartRecording", "StopRecording", "Exit", "None"}

\* the instances that hold threads and a stream
Live(instances) ==
    {i \in 1..Len(instances) : instances[i].state \in {"starting", "active", "stopping"}}

\* a session that restarts the last instance
Started_Reused(instances) ==
    IF instances = <<>>
    THEN <<[state |-> "starting", stop_signal |-> FALSE, stops |-> 0, pipeline |-> 1]>>
    ELSE [instances EXCEPT ![Len(instances)] = [@ EXCEPT !.state = "starting"]]

\* RecordingSession::start, lines 75-82: a new pipeline, a new stop flag set
\* to false and new channels for every call
Started(instances) ==
    Append(instances, [state |-> "starting", stop_signal |-> FALSE, stops |-> 0,
                       pipeline |-> Len(instances) + 1])

\* RecordingSession::stop, line 187, called on instance i
Stopping(instances, i) ==
    [instances EXCEPT ![i] = [@ EXCEPT !.state = "stopping", !.stop_signal = TRUE,
                                       !.stops = @ + 1]]

\* RecordingSession::stop, lines 203-208: the call returns
Stopped(instances, i) == [instances EXCEPT ![i] = [@ EXCEPT !.state = "stopped"]]

\* a loop that starts a session on every StartRecording
StartsOnCommand_Always(cmd, is_recording) == cmd = "StartRecording"

\* lines 315-316
StartsOnCommand(cmd, is_recording) == cmd = "StartRecording" /\ ~is_recording

\* lines 322-325
StopsOnCommand(cmd, is_recording, slot) ==
    cmd = "StopRecording" /\ is_recording /\ slot # 0

LInit ==
    /\ recording_loop = [pc |-> "top", is_recording |-> FALSE, session |-> 0,
                         cmd |-> "None"]
    /\ running = TRUE
    /\ sessions = <<>>
    /\ handled = 0

\* the Ctrl+C handler, lines 267-271, on its own thread
CtrlC ==
    /\ running
    /\ recording_loop.pc \notin {"exited", "failed"}
    /\ running' = FALSE
    /\ UNCHANGED <<recording_loop, sessions, handled>>
    /\ UNCHANGED <<qvars, svars, evars, wvars, rvars, mvars>>

\* a loop that breaks as soon as running is false, whatever it holds
LoopCheckRunning_BreaksAtOnce ==
    /\ recording_loop.pc = "top"
    /\ recording_loop' = [recording_loop EXCEPT !.pc = IF running THEN "input" ELSE "exited"]
    /\ UNCHANGED <<running, sessions, handled>>
    /\ UNCHANGED <<qvars, svars, evars, wvars, rvars, mvars>>

\* lines 300-312: the loop reads running; when it is false the loop stops the
\* session it holds, if is_recording says so, and breaks
LoopCheckRunning ==
    /\ recording_loop.pc = "top"
    /\ IF running
       THEN /\ recording_loop' = [recording_loop EXCEPT !.pc = "input"]
            /\ UNCHANGED sessions
       ELSE IF recording_loop.is_recording /\ recording_loop.session # 0
            THEN /\ recording_loop' = [recording_loop EXCEPT !.pc = "exit_stop"]
                 /\ sessions' = Stopping(sessions, recording_loop.session)
            ELSE /\ recording_loop' = [recording_loop EXCEPT !.pc = "exited"]
                 /\ UNCHANGED sessions
    /\ UNCHANGED <<running, handled>>
    /\ UNCHANGED <<qvars, svars, evars, wvars, rvars, mvars>>

\* lines 305-311: stop() returns, the session is gone and the loop breaks
LoopExitStopped ==
    /\ recording_loop.pc = "exit_stop"
    /\ sessions' = Stopped(sessions, recording_loop.session)
    /\ recording_loop' = [recording_loop EXCEPT !.pc = "exited", !.session = 0]
    /\ UNCHANGED <<running, handled>>
    /\ UNCHANGED <<qvars, svars, evars, wvars, rvars, mvars>>

\* lines 314-389: check_input returns a command, which is dispatched
LoopCheckInput ==
    /\ recording_loop.pc = "input"
    /\ \E cmd \in InputCommand :
        /\ cmd # "None" => handled < MaxCommands
        /\ handled' = IF cmd = "None" THEN handled ELSE handled + 1
        /\ running' = IF cmd = "Exit" THEN FALSE ELSE running
        /\ IF StartsOnCommand(cmd, recording_loop.is_recording)
           THEN /\ sessions' = Started(sessions)
                /\ recording_loop' = [recording_loop EXCEPT !.pc = "starting", !.cmd = cmd]
           ELSE IF StopsOnCommand(cmd, recording_loop.is_recording, recording_loop.session)
           THEN /\ sessions' = Stopping(sessions, recording_loop.session)
                /\ recording_loop' = [recording_loop EXCEPT !.pc = "stopping", !.cmd = cmd]
           ELSE /\ UNCHANGED sessions
                /\ recording_loop' = [recording_loop EXCEPT !.pc = "top", !.cmd = cmd]
    /\ UNCHANGED <<qvars, svars, evars, wvars, rvars, mvars>>

\* line 314: check_input fails and run_recording_mode returns the error; a
\* session the loop holds is dropped, not stopped
LoopInputError ==
    /\ recording_loop.pc = "input"
    /\ recording_loop' = [recording_loop EXCEPT !.pc = "failed", !.session = 0]
    /\ sessions' = IF recording_loop.session = 0 THEN sessions
                   ELSE [sessions EXCEPT ![recording_loop.session] =
                            [@ EXCEPT !.state = "dropped"]]
    /\ UNCHANGED <<running, handled>>
    /\ UNCHANGED <<qvars, svars, evars, wvars, rvars, mvars>>

\* lines 318-319: start() returns the session, or an error that
\* run_recording_mode returns
LoopStarted ==
    /\ recording_loop.pc = "starting"
    /\ \E ok \in BOOLEAN :
        IF ok
        THEN /\ sessions' = [sessions EXCEPT ![Len(sessions)] = [@ EXCEPT !.state = "active"]]
             /\ recording_loop' = [recording_loop EXCEPT
                    !.pc = "top", !.session = Len(sessions), !.is_recording = TRUE]
        ELSE /\ sessions' = [sessions EXCEPT ![Len(sessions)] = [@ EXCEPT !.state = "dropped"]]
             /\ recording_loop' = [recording_loop EXCEPT !.pc = "failed"]
    /\ UNCHANGED <<running, handled>>
    /\ UNCHANGED <<qvars, svars, evars, wvars, rvars, mvars>>

\* lines 326-380: stop() returns; the session was taken out of the slot
LoopStopped ==
    /\ recording_loop.pc = "stopping"
    /\ sessions' = Stopped(sessions, recording_loop.session)
    /\ recording_loop' = [recording_loop EXCEPT
            !.pc = "top", !.session = 0, !.is_recording = FALSE]
    /\ UNCHANGED <<running, handled>>
    /\ UNCHANGED <<qvars, svars, evars, wvars, rvars, mvars>>

LoopNext ==
    \/ CtrlC
    \/ LoopCheckRunning
    \/ LoopExitStopped
    \/ LoopCheckInput
    \/ LoopInputError
    \/ LoopStarted
    \/ LoopStopped

MaxSeconds == 1     \* seconds that pass on the clock during a session

\* the wall clock that Local::now() reads moves on by a second
Tick ==
    /\ now < MaxSeconds
    /\ now' = now + 1
    /\ UNCHANGED <<config, sherpa_engine, validation>>
    /\ UNCHANGED <<qvars, svars, lvars, wvars, rvars, mvars>>

Init == QInit /\ SInit /\ LInit /\ EInit /\ WInit /\ RInit /\ MInit

Next == QNext

Spec == Init /\ [][Next]_vars

(***************************************************************************)
(* The overflow scenario of the specification's section 8: one producer    *)
(* pushes three batches of 40 samples into a queue nobody pops. The        *)
(* capacity is drawn around the scenario's 100.                            *)
(***************************************************************************)
ScenarioBatches == <<40, 40, 40>>
ScenarioCapacities == 85..115
ScenarioProducer == "p1"

RECURSIVE SumFirst(_, _)
SumFirst(lens, k) == IF k = 0 THEN 0 ELSE SumFirst(lens, k - 1) + lens[k]

\* how many of the scenario's pushes have been called
ScenarioCalls ==
    CHOOSE k \in 0..Len(ScenarioBatches) : nextId = SumFirst(ScenarioBatches, k) + 1

ScenarioInit ==
    /\ queue = <<>>
    /\ max_size \in ScenarioCapacities
    /\ pc = [t \in Threads |-> "idle"]
    /\ arg = [t \in Threads |-> NoArg]
    /\ ret = NoRet
    /\ nextId = 1
    /\ pushed = <<>>
    /\ popped = <<>>
    /\ rejected = {}
    /\ SInit
    /\ LInit
    /\ EInit
    /\ WInit /\ RInit /\ MInit

\* the producer calls push with the next batch of the scenario
ScenarioCallPush(t) ==
    /\ t = ScenarioProducer
    /\ pc[t] = "idle"
    /\ ScenarioCalls < Len(ScenarioBatches)
    /\ LET n == ScenarioBatches[ScenarioCalls + 1] IN
        /\ arg' = [arg EXCEPT ![t] = [kind |-> "push", items |-> Ids(nextId, n), n |-> n]]
        /\ nextId' = nextId + n
    /\ pc' = [pc EXCEPT ![t] = "push"]
    /\ ret' = NoRet
    /\ UNCHANGED <<queue, max_size, pushed, popped, rejected>>
    /\ UNCHANGED <<svars, lvars, evars, wvars, rvars, mvars>>

ScenarioNext ==
    \/ ScenarioCallPush(ScenarioProducer)
    \/ Push(ScenarioProducer)

ScenarioSpec == ScenarioInit /\ [][ScenarioNext]_vars

\* the steps a thread takes once it has called: each needs only the lock
Body(t) == Push(t) \/ PushSingle(t) \/ PopBatch(t) \/ TryPopBatch(t)

\* every thread that is inside a call and can run does run; a thread need not
\* call again, and a spurious wakeup is not owed to anyone
FairSpec == Spec /\ \A t \in Threads : WF_vars(Body(t))

\* the session: capture, the four workers and stop()
SessionSpec == Init /\ [][SessionNext]_vars

\* the recording loop and the sessions it creates
LoopSpec == Init /\ [][LoopNext]_vars

\* every worker thread that can take a step takes one, and stop(), once
\* called, goes on; nobody owes a capture callback or the call of stop()
FairSessionSpec ==
    /\ SessionSpec
    /\ WF_vars(ResamplerStep)
    /\ WF_vars(WriterStep)
    /\ WF_vars(RecognitionStep)
    /\ WF_vars(TextWriterStep)
    /\ WF_vars(StopStep)

(***************************************************************************)
(* Claims about BlockingQueue                                              *)
(***************************************************************************)

\* C1: in every reachable state, whatever the interleaving of push,
\* push_single, pop_batch and try_pop_batch, the queue holds at most max_size
\* items.
C1_LenAtMostMaxSize == Len(queue) <= max_size

\* C1 witness: the queue is full and a push has been turned away
C1_Witness == Len(queue) = max_size /\ rejected # {}

\* C2: a push that returns does one of two things: if the batch does not fit
\* it returns false and the queue is what it was; otherwise it returns true
\* and the queue is the old queue followed by the whole batch, in order.
C2_PushBatchAtomic ==
    [][\A t \in Pushers :
        (pc[t] = "push" /\ pc'[t] = "idle") =>
            IF Len(queue) + Len(arg[t].items) > max_size
            THEN ret' = Ret(t, "push", FALSE, <<>>) /\ queue' = queue
            ELSE ret' = Ret(t, "push", TRUE, <<>>) /\ queue' = queue \o arg[t].items]_vars

\* C2 witness: a push was rejected while the queue held something and had
\* room for part of the batch
C2_Witness ==
    /\ ret.op = "push" /\ ~ret.ok
    /\ queue # <<>> /\ Len(queue) < max_size

\* C3: the items popped so far, in pop order, are a prefix of the items of the
\* accepted pushes in push order, and the two are equal when the queue is
\* empty.
C3_Fifo ==
    /\ IsPrefix(popped, pushed)
    /\ (queue = <<>> => popped = pushed)

\* C3 witness: every item the producers could make has gone through the
\* queue, which took several pushes and several pops
C3_Witness == queue = <<>> /\ Len(popped) >= 3

\* C4: with several pushers and poppers, every item of an accepted push is in
\* the queue or has been returned by exactly one pop, never both and never
\* twice, and no item of a rejected push is in the queue or was ever returned.
C4_NoDuplicateNoLoss ==
    /\ \A i \in Elems(pushed) : Occurrences(popped, i) + Occurrences(queue, i) = 1
    /\ \A i \in rejected : Occurrences(popped, i) + Occurrences(queue, i) = 0
    /\ Elems(popped) \cup Elems(queue) \subseteq Elems(pushed)

\* C4 witness: items were accepted from both producers, some popped and some
\* still queued, after a rejected push
C4_Witness ==
    /\ rejected # {}
    /\ popped # <<>>
    /\ queue # <<>>

\* C5 as claimed: pop_batch never returns an empty sequence, whatever its
\* max_count.
C5_PopBatchNeverEmpty == ret.op = "pop_batch" => ret.items # <<>>

\* C5 amended: a pop_batch called with max_count >= 1 never returns an empty
\* sequence.
C5_PopBatchNonEmptyForPositiveCount ==
    [][\A t \in Poppers :
        (pc[t] \in {"pop_batch", "notified"} /\ pc'[t] = "idle" /\ arg[t].n >= 1) =>
            (ret'.by = t /\ ret'.op = "pop_batch" /\ ret'.items # <<>>)]_vars

\* C5 witness: a pop_batch that had to wait has returned items
C5_Witness ==
    /\ ret.op = "pop_batch" /\ ret.items # <<>>
    /\ \E t \in Poppers : pc[t] = "waiting"

\* C6: try_pop_batch returns at once: None exactly when the queue is empty as
\* it takes the lock, and otherwise Some of the min(len, max_count) oldest
\* items in queue order, the rest staying queued in order.
C6_TryPopBatch ==
    [][\A t \in Poppers :
        pc[t] = "try_pop_batch" /\ pc'[t] # "try_pop_batch" =>
            /\ pc'[t] = "idle"
            /\ ret'.by = t /\ ret'.op = "try_pop_batch"
            /\ ~ret'.ok <=> queue = <<>>
            /\ LET k == IF Len(queue) < arg[t].n THEN Len(queue) ELSE arg[t].n IN
               /\ ret'.items = SubSeq(queue, 1, k)
               /\ queue' = SubSeq(queue, k + 1, Len(queue))]_vars

\* C6 witness: a try_pop_batch took part of the queue
C6_Witness == ret.op = "try_pop_batch" /\ ret.ok /\ ret.items # <<>> /\ queue # <<>>

\* C7: under fair scheduling no thread stays parked in pop_batch for ever
\* while the queue stays non-empty.
C7_NoWaiterStarves ==
    \A t \in Poppers : []<>(~(pc[t] = "waiting" /\ queue # <<>>))

\* C8: on a queue of capacity 100 that nobody pops, three pushes of 40 items
\* return true, true and false, and the queue then holds exactly the first 80
\* items in push order.
C8_OverflowScenario ==
    (max_size = 100 /\ pc[ScenarioProducer] = "idle" /\ ret.op = "push") =>
        /\ ScenarioCalls = 1 => (ret.ok /\ queue = Ids(1, 40))
        /\ ScenarioCalls = 2 => (ret.ok /\ queue = Ids(1, 80))
        /\ ScenarioCalls = 3 => (~ret.ok /\ queue = Ids(1, 80) /\ rejected = 81..120)

\* C8 witness: the third push has returned on the queue of capacity 100
C8_Witness ==
    /\ max_size = 100 /\ pc[ScenarioProducer] = "idle"
    /\ ret.op = "push" /\ ScenarioCalls = 3

(***************************************************************************)
(* Claims about the session's shutdown                                     *)
(***************************************************************************)

AllWorkersDone == \A i \in 1..Len(WorkerNames) : WorkerPc(i) = "done"

\* C9: once stop() has been called, under fair scheduling it returns, and
\* when it has returned the resampler, WAV writer, recognition and text
\* writer threads have all terminated, whatever was pending in the raw
\* queue, the two resampled queues and the text channel at the call.
C9_StopTerminates ==
    /\ stop_signal ~> (session.pc = "stopped")
    /\ [](session.pc = "stopped" => AllWorkersDone)

\* C9 witness: stop() was called while all four workers were running and
\* captured samples were still in the raw queue, no worker returned an
\* error, and stop() has returned
C9_Witness ==
    /\ session.pc = "stopped"
    /\ pending_at_stop
    /\ failed = {}
    /\ AllWorkersDone

\* C10: when stop() has returned, the raw queue, both resampled queues and
\* the resampler's carry-over buffer are empty. Stated for the sessions in
\* which no worker returned an error, where every stage ran to its end.
C10_NothingInFlight ==
    (session.pc = "stopped" /\ failed = {}) =>
        /\ raw_queue = <<>>
        /\ resampled_queue_writer = <<>>
        /\ resampled_queue_realtime = <<>>
        /\ resampler.buffer = <<>>

(***************************************************************************)
(* Claims about the order of capture, stop flag and drains                 *)
(***************************************************************************)

\* C11: once the stop flag is set, no batch is accepted into the raw queue:
\* from then on the raw queue never grows.
C11_NoCaptureAfterStop ==
    [][stop_signal => Len(raw_queue') <= Len(raw_queue)]_vars

(* ---- the end-to-end scenario: push a fixed amount, then stop ---- *)

\* the slices of the scenario: even, and a whole number of frames once averaged
EndToEndSliceLen == 2 * ChunkSize

\* the capture callback before stop() is called, with a slice that fits
EndToEndCapture ==
    /\ ~stop_signal
    /\ Len(raw_queue) + EndToEndSliceLen <= BufferSize
    /\ Capture
    /\ Len(raw_queue') = Len(raw_queue) + EndToEndSliceLen

\* stop() is called once every slice has been pushed
EndToEndStop ==
    /\ captured = MaxCaptures
    /\ StopStore

EndToEndNext ==
    \/ EndToEndCapture
    \/ EndToEndStop
    \/ ResamplerStep
    \/ WriterStep
    \/ RecognitionStep
    \/ TextWriterStep
    \/ StopStep

EndToEndSpec == Init /\ [][EndToEndNext]_vars

\* samples at the output rate that n raw samples amount to
ResampledEquivalent(n) == (n * OutPerFrame) \div ChunkSize

Distance(a, b) == IF a < b THEN b - a ELSE a - b

\* C12: when the scenario's samples have all been pushed without overflow and
\* stop() has then returned with no worker or transform error, the audio file is finalized
\* and holds the resampled equivalent of every pushed sample, to within one
\* frame's output, and the transcript is closed with nothing left to flush.
C12_EndToEnd ==
    (session.pc = "stopped" /\ failed = {} /\ resampler.errors = 0) =>
        /\ writer.finalized
        /\ Distance(writer.written, ResampledEquivalent(captured * EndToEndSliceLen))
               <= OutPerFrame
        /\ text_writer.pc = "done"
        /\ text_writer.unflushed = 0

RecognizerConstructed == recognition.pc # "new" /\ "recognition" \notin failed

\* C14: in a session whose recognizer was constructed, finalize() is called
\* only with the stop flag set and only from the drain loop on a pop that
\* found the queue empty; it is called at most once, and under fair
\* scheduling exactly once after the flag is set; once it has been called
\* nothing more is popped for process_audio.
C14_DrainThenFinalizeOnce ==
    /\ [][ /\ (recognition'.finalized # recognition.finalized)
              => (/\ stop_signal
                  /\ recognition.pc = "finalize"
                  /\ recognition'.finalized = recognition.finalized + 1)
           /\ (recognition.pc # "finalize" /\ recognition'.pc = "finalize")
              => (/\ recognition.pc = "drain"
                  /\ stop_signal
                  /\ resampled_queue_realtime = <<>>)
           /\ (recognition.finalized >= 1)
              => Len(resampled_queue_realtime') >= Len(resampled_queue_realtime)
         ]_vars
    /\ [](recognition.finalized <= 1)
    /\ (RecognizerConstructed /\ stop_signal) ~> (recognition.finalized = 1)

\* C14 witness: every captured sample was still in the raw queue when stop()
\* was called; the resampler has delivered a frame and ended; the recognition
\* thread has consumed it and called finalize()
C14_Witness ==
    /\ pending_at_stop
    /\ RecognizerConstructed
    /\ recognition.finalized = 1
    /\ resampler.pc = "done"
    /\ resampler.frames >= 1
    /\ resampled_queue_realtime = <<>>

\* C15: an event with is_final = true enters the text channel only in the
\* step that calls finalize(), at most once; events with is_final = false
\* enter only from process_audio; after finalize() nothing enters the
\* channel, so a final event in the channel is the last one.
C15_OneFinalEventLast ==
    /\ [][ /\ (Len(text_channel') > Len(text_channel))
              => IF text_channel'[Len(text_channel')].is_final
                 THEN recognition.pc = "finalize" /\ recognition.finalized = 0
                 ELSE recognition.pc \in {"loop", "drain"}
           /\ (recognition.finalized >= 1)
              => Len(text_channel') <= Len(text_channel)
         ]_vars
    /\ [](\A i \in 1..Len(text_channel) :
            text_channel[i].is_final => i = Len(text_channel))

\* C15 witness: finalize() has sent its event behind one from process_audio
C15_Witness ==
    /\ Len(text_channel) >= 2
    /\ ~text_channel[1].is_final
    /\ text_channel[Len(text_channel)].is_final
    /\ recognition.finalized = 1

(* ---- the fan-out under load: capture, resampler and the two consumers ---- *)

FanOutCaptures == 3     \* runs of the capture callback in the fan-out runs

\* a slice that fills the raw queue
FanOutSliceLen == BufferSize

\* the capture callback, main.rs lines 90-94
FanOutCapture ==
    /\ stream = "playing"
    /\ captured < FanOutCaptures
    /\ raw_queue' = PushExtend(raw_queue, Silence(FanOutSliceLen), BufferSize)
    /\ captured' = captured + 1
    /\ UNCHANGED <<stop_signal, stream, text_tx, resampled_queue_writer,
                   resampled_queue_realtime, resampler, writer, recognition,
                   text_channel, text_writer, wav_path_channel, session,
                   pending_at_stop>>
    /\ UNCHANGED <<failed, qvars, lvars, evars, wvars, rvars, mvars>>

\* a recording that is not stopped: the consumers take when they are scheduled
FanOutNext ==
    \/ FanOutCapture
    \/ ResamplerNew
    \/ ResamplerLoop
    \/ ResamplerPushWriter
    \/ ResamplerPushRealtime
    \/ WriterNew
    \/ WriterLoop
    \/ RecognitionNew
    \/ RecognitionLoop
    \/ TextWriterNew
    \/ TextWriterRecv

FanOutSpec == Init /\ [][FanOutNext]_vars

\* the resampler is between two batches
BetweenBatches == resampler.pc \notin {"push_writer", "push_realtime"}

\* the frame numbers of the batches of a history rise
InProductionOrder(history) ==
    \A i, j \in 1..Len(history) :
        i < j => history[i][Len(history[i])] < history[j][1]

\* C16 as claimed: whenever the resampler is between two batches, the
\* sequence of batches accepted by the writer-side queue equals the sequence
\* accepted by the recognition-side queue.
C16_SameSequence ==
    BetweenBatches => resampler.to_writer = resampler.to_realtime

\* C16: each queue accepts batches in production order; as long as no push
\* has been rejected for overflow the two accepted sequences are equal
\* between batches, and while a batch is handed over the writer side is
\* ahead by exactly that batch.
C16_SameSequenceUnlessDropped ==
    /\ InProductionOrder(resampler.to_writer)
    /\ InProductionOrder(resampler.to_realtime)
    /\ (~resampler.dropped /\ resampler.pc # "push_realtime")
       => resampler.to_writer = resampler.to_realtime
    /\ (~resampler.dropped /\ resampler.pc = "push_realtime")
       => resampler.to_writer = Append(resampler.to_realtime, resampler.out)

\* C16 witness: two batches have gone to both queues and none was rejected
C16_Witness ==
    /\ ~resampler.dropped
    /\ BetweenBatches
    /\ Len(resampler.to_realtime) >= 2
    /\ resampler.to_writer = resampler.to_realtime

\* what a queue q holds after batch out was offered to it: all of out behind
\* q when there is room, else q as it was
Offered(q, out) == IF Len(q) + Len(out) <= BufferSize THEN q \o out ELSE q

\* C17: the resampler is never blocked in a push, whatever the fill of
\* either queue; each of its two pushes leaves its queue with the whole batch
\* appended, unmodified, exactly when that queue has room, whether or not the
\* other queue took the batch; and each side's accepted batches stay in
\* production order.
C17_IndependentBackpressure ==
    /\ [][ /\ (resampler.pc = "push_writer" /\ resampler'.pc # "push_writer")
              => /\ resampled_queue_writer' = Offered(resampled_queue_writer, resampler.out)
                 /\ resampler'.pc = "push_realtime"
                 /\ resampler'.out = resampler.out
           /\ (resampler.pc = "push_realtime" /\ resampler'.pc # "push_realtime")
              => resampled_queue_realtime' = Offered(resampled_queue_realtime, resampler.out)
         ]_vars
    /\ [](resampler.pc \in {"push_writer", "push_realtime"}
            => ENABLED (ResamplerPushWriter \/ ResamplerPushRealtime))
    /\ [](InProductionOrder(resampler.to_writer) /\ InProductionOrder(resampler.to_realtime))

\* C17 witness: the writer-side queue was full and rejected a batch that the
\* recognition-side queue accepted
C17_Witness ==
    /\ resampler.dropped
    /\ BetweenBatches
    /\ Len(resampler.to_realtime) > Len(resampler.to_writer)
    /\ resampler.to_realtime[Len(resampler.to_realtime)] \notin Elems(resampler.to_writer)

(***************************************************************************)
(* Claims about the session's life cycle                                   *)
(***************************************************************************)

\* C18: the stop flag starts false; it changes only in the first step of
\* stop(), from false to true, a step in which no worker takes part; once true
\* it stays true.
C18_StopFlagMonotonic ==
    /\ ~stop_signal
    /\ [][ /\ (stop_signal' # stop_signal)
              => /\ ~stop_signal
                 /\ stop_signal'
                 /\ session.pc = "recording"
                 /\ session'.pc = "drop_stream"
                 /\ UNCHANGED <<resampler, writer, recognition, text_writer>>
           /\ stop_signal => stop_signal'
         ]_vars

\* C18 witness: stop() has returned after the workers ran, the flag still set
C18_Witness ==
    /\ stop_signal
    /\ session.pc = "stopped"
    /\ failed = {}
    /\ writer.written > 0

\* how far an instance is in its life; a dropped instance is as final as a
\* stopped one
Rank(state) ==
    CASE state = "starting" -> 1
      [] state = "active" -> 2
      [] state = "stopping" -> 3
      [] state = "stopped" -> 4
      [] state = "dropped" -> 4

\* C19: an instance only moves forward through starting, active, stopping
\* and stopped; stop() is applied to it at most once and its stop flag is never
\* cleared; a stopped or dropped instance never changes again; and every start
\* creates one new instance with a pipeline no earlier instance has and a
\* stop flag that is false.
C19_ForwardOnlyFreshInstances ==
    /\ [][ /\ Len(sessions') >= Len(sessions)
           /\ \A i \in 1..Len(sessions) :
                /\ Rank(sessions'[i].state) >= Rank(sessions[i].state)
                /\ sessions[i].state \in {"stopped", "dropped"}
                   => sessions'[i] = sessions[i]
                /\ sessions'[i].pipeline = sessions[i].pipeline
                /\ sessions[i].stop_signal => sessions'[i].stop_signal
           /\ Len(sessions') > Len(sessions)
              => /\ Len(sessions') = Len(sessions) + 1
                 /\ sessions'[Len(sessions')].state = "starting"
                 /\ ~sessions'[Len(sessions')].stop_signal
                 /\ sessions'[Len(sessions')].stops = 0
                 /\ \A i \in 1..Len(sessions) :
                        sessions[i].pipeline # sessions'[Len(sessions')].pipeline
         ]_vars
    /\ [](\A i \in 1..Len(sessions) :
            /\ sessions[i].stops <= 1
            /\ sessions[i].state \in {"stopping", "stopped"} <=> sessions[i].stops = 1
            /\ sessions[i].stop_signal <=> sessions[i].stops = 1)

\* C19 witness: a second recording runs on a new instance after the first
\* instance was stopped
C19_Witness ==
    /\ Len(sessions) >= 2
    /\ sessions[1].state = "stopped"
    /\ sessions[2].state = "active"
    /\ recording_loop.session = 2

\* C20: at most one instance is starting, active or stopping at any time; an
\* instance is created only while the loop is not recording and no instance
\* is live; and a StartRecording handled while recording changes neither the
\* instances nor the loop's slot and flag.
C20_AtMostOneSession ==
    /\ [](Cardinality(Live(sessions)) <= 1)
    /\ [][ /\ Len(sessions') > Len(sessions)
              => (~recording_loop.is_recording /\ Live(sessions) = {})
           /\ (/\ handled' = handled + 1
               /\ recording_loop'.cmd = "StartRecording"
               /\ recording_loop.is_recording)
              => /\ sessions' = sessions
                 /\ recording_loop'.is_recording
                 /\ recording_loop'.session = recording_loop.session
                 /\ recording_loop'.pc = "top"
         ]_vars

\* C20 witness: a StartRecording was handled while the one session was active
C20_Witness ==
    /\ recording_loop.cmd = "StartRecording"
    /\ recording_loop.is_recording
    /\ recording_loop.pc = "top"
    /\ handled >= 2
    /\ Len(sessions) = 1
    /\ sessions[1].state = "active"

(***************************************************************************)
(* Claims about the transcript                                             *)
(***************************************************************************)

\* the ids of the first n events sent, in the order they were sent
FirstSent(n) == [i \in 1..n |-> i]

\* the ids of the events whose lines are in the transcript, in file order
LineIds == [i \in 1..Len(text_writer.lines) |-> text_writer.lines[i].id]

MaxEvents == 6      \* events sent in the transcript runs

\* a Sender of the text channel sends one event (recognition.rs lines 141-145
\* and 167-171); the consumer does not depend on which events are final
TextSend ==
    /\ TextSenders > 0
    /\ recognition.sent < MaxEvents
    /\ \E is_final \in BOOLEAN :
        text_channel' = Sent(text_channel, Event(is_final))
    /\ recognition' = [recognition EXCEPT !.sent = recognition.sent + 1]
    /\ UNCHANGED <<stop_signal, stream, text_tx, raw_queue, resampled_queue_writer,
                   resampled_queue_realtime, resampler, writer, text_writer,
                   wav_path_channel, session, captured, pending_at_stop>>
    /\ UNCHANGED <<failed, qvars, lvars, evars, wvars, rvars, mvars>>

\* every Sender is dropped (main.rs line 193 and the end of the recognition thread)
TextSendersDrop ==
    /\ TextSenders > 0
    /\ text_tx' = FALSE
    /\ recognition' = [recognition EXCEPT !.sender = FALSE]
    /\ UNCHANGED <<stop_signal, stream, raw_queue, resampled_queue_writer,
                   resampled_queue_realtime, resampler, writer, text_channel,
                   text_writer, wav_path_channel, session, captured, pending_at_stop>>
    /\ UNCHANGED <<failed, qvars, lvars, evars, wvars, rvars, mvars>>

TranscriptNext ==
    \/ TextSend
    \/ TextSendersDrop
    \/ TextWriterNew
    \/ TextWriterRecv
    \/ TextWriterClose

TranscriptSpec == Init /\ [][TranscriptNext]_vars

\* C22: after each event is handled at most 4 written lines are not yet
\* flushed, and none is right after an event with is_final = true and right
\* after every 5th line. (unflushed counts the lines written since the last
\* flush() call.)
C22_FlushDiscipline ==
    /\ [](text_writer.unflushed <= 4)
    /\ [][text_writer'.line_count = text_writer.line_count + 1
          => /\ text_writer'.unflushed <= 4
             /\ (Head(text_channel).is_final \/ text_writer'.line_count % 5 = 0)
                    => text_writer'.unflushed = 0
             /\ ~(Head(text_channel).is_final \/ text_writer'.line_count % 5 = 0)
                    => text_writer'.unflushed = text_writer.unflushed + 1]_vars

\* five events without is_final have been written and the fifth was flushed,
\* and the consumer is still receiving
C22_Witness ==
    /\ text_writer.pc = "recv"
    /\ text_writer.line_count = 5
    /\ \A i \in 1..5 : ~text_writer.lines[i].is_final
    /\ text_writer.unflushed = 0

(***************************************************************************)
(* Claims about configuration and the choice of the engine                 *)
(***************************************************************************)

\* the engine names a config.toml may carry: the two known ones and another
EngineNames == {"vosk", "sherpa-onnx", "whisper"}

\* configurations that select each engine name, complete for that engine
EngineConfigs ==
    {[DefaultConfig EXCEPT !.realtime_engine = e,
                           !.sherpa_encoder = <<"m">>,
                           !.sherpa_decoder = <<"m">>,
                           !.sherpa_joiner = <<"m">>,
                           !.sherpa_tokens = <<"m">>] : e \in EngineNames}

\* sessions start only with a Config that Config::load accepted (main.rs
\* line 464), in a build with or without the sherpa-engine feature
EngineInit ==
    /\ QInit
    /\ SInit
    /\ LInit
    /\ config \in {c \in EngineConfigs : Validate(c) = "Ok"}
    /\ sherpa_engine \in BOOLEAN
    /\ validation = "Ok"
    /\ now = 0
    /\ WInit /\ RInit /\ MInit

EngineSpec == EngineInit /\ [][SessionNext]_vars

\* the errors of create_realtime_recognizer that come from the selection of
\* the engine, not from its model files
SelectionErrors ==
    {"Unknown realtime_engine", "compiled without the sherpa-engine feature"}

\* C23: an unknown engine name or an engine that was not compiled in never
\* surfaces as an error inside the recognition thread, which runs only once
\* start() has spawned it.
C23_SelectionErrorBeforeThreads == recognition.error \notin SelectionErrors

(***************************************************************************)
(* Claims about failures inside the workers                                *)
(***************************************************************************)

(* ---- the recognition side under load: capture, resampler, recognition, stop ---- *)

\* a recording in which only the resampler and the recognition thread are
\* scheduled, until and after stop() is called
RecognitionNext ==
    \/ FanOutCapture
    \/ ResamplerNew
    \/ ResamplerLoop
    \/ ResamplerDrain
    \/ ResamplerFlush
    \/ ResamplerPushWriter
    \/ ResamplerPushRealtime
    \/ RecognitionNew
    \/ RecognitionLoop
    \/ RecognitionDrain
    \/ RecognitionFinalize
    \/ RecognitionReturn
    \/ StopStore
    \/ StopDropStream
    \/ StopDropTextTx

RecognitionSpec == Init /\ [][RecognitionNext]_vars

C25_OnlyFailedFrameSkipped ==
    [][(resampler'.errors = resampler.errors + 1 /\ resampler.pc \in {"loop", "drain"})
       => /\ resampler'.out =
                FramesOutput(resampler.frames + 1,
                             resampler'.frames - resampler.frames - 1)
          /\ resampler'.pc = IF resampler'.out = <<>> THEN resampler.pc ELSE "push_writer"
          /\ resampler'.frames > resampler.frames]_vars

RECURSIVE SamplesIn(_)
\* the number of samples in a sequence of batches
SamplesIn(history) ==
    IF history = <<>> THEN 0 ELSE Len(Head(history)) + SamplesIn(Tail(history))

C27_JoinsAllWhateverTheOutcome ==
    /\ [][session'.joined # session.joined
          => /\ session'.joined = session.joined + 1
             /\ WorkerPc(session'.joined) = "done"]_vars
    /\ [](session.pc = "stopped"
            => /\ session.joined = Len(WorkerNames)
               /\ session.output # NoOutput)
    /\ (session.pc # "recording" /\ failed # {})
            ~> (session.pc = "stopped" /\ session.joined = Len(WorkerNames))

\* stop() has returned from a session in which every worker ended in an error
C27_Witness ==
    /\ session.pc = "stopped"
    /\ session.joined = Len(WorkerNames)
    /\ failed = {WorkerNames[i] : i \in 1..Len(WorkerNames)}

\* C28: the writer thread has reported its path by the time stop() reads the
\* channel whenever writer_thread returned Ok; stop() returns the reported
\* path then, and the precomputed path exactly when writer_thread returned
\* an error and so reported none.
C28_ReportedPathPreferred ==
    /\ [](session.pc = "try_recv"
            => (wav_path_channel # <<>>) = writer.finalized)
    /\ [](session.pc = "stopped"
            => /\ session.reported = writer.finalized
               /\ session.reported = ("writer" \notin failed)
               /\ session.reported => session.output.wav_path = writer.filepath
               /\ ~session.reported => session.output.wav_path = session.wav_path)

\* stop() has returned the path reported by a writer that wrote samples
C28_Witness ==
    /\ session.pc = "stopped"
    /\ session.reported
    /\ writer.written > 0
    /\ session.output.wav_path = writer.filepath

(* ---- a session during which the wall clock moves on ---- *)

PathNext ==
    \/ Tick
    \/ Capture
    \/ ResamplerStep
    \/ WriterStep
    \/ RecognitionStep
    \/ TextWriterStep
    \/ StopStore
    \/ StopStep

PathSpec == Init /\ [][PathNext]_vars

\* C29: the paths stop() returns are named after the one base name it
\* returns: the audio file is <base_name>.wav and the transcript is
\* <base_name>_real-time.txt, however late the writer thread started.
C29_PathsShareBaseName ==
    session.pc = "stopped" =>
        /\ session.output.wav_path =
                [stamp |-> session.output.base_name, rest |-> ".wav"]
        /\ session.output.realtime_txt_path =
                [stamp |-> session.output.base_name, rest |-> "_real-time.txt"]

(* ---- Config::validate on the configurations a config.toml can hold ---- *)

SampleRates == {7999, 8000, 16000, 48000, 48001}

AudioGains == {0, 1, 10, 11}

VoskModelPaths == {None} \cup {Some(s) : s \in Strings}

\* a sherpa file name: unset, of a file that is not there, of one that is
SherpaPaths == {<<>>, <<" ">>, <<"m">>}

Configs ==
    {[DefaultConfig EXCEPT !.sample_rate = rate,
                           !.audio_gain = gain,
                           !.realtime_engine = engine,
                           !.vosk_model_path = path,
                           !.sherpa_encoder = encoder,
                           !.sherpa_decoder = <<"m">>,
                           !.sherpa_joiner = <<"m">>,
                           !.sherpa_tokens = tokens,
                           !.output_directory = directory,
                           !.ollama_enabled = enabled[1],
                           !.ollama_model = enabled[2]] :
        rate \in SampleRates, gain \in AudioGains, engine \in EngineNames,
        path \in VoskModelPaths, encoder \in SherpaPaths, tokens \in SherpaPaths,
        directory \in {"exists", "uncreatable"},
        enabled \in BOOLEAN \X {<<>>, <<"m">>}}

\* config.toml has been parsed (config.rs line 90) and not yet validated
ConfigInit ==
    /\ QInit
    /\ SInit
    /\ LInit
    /\ config \in Configs
    /\ sherpa_engine = FALSE
    /\ validation = "none"
    /\ now = 0
    /\ WInit /\ RInit /\ MInit

\* config.rs line 94: config.validate()
ConfigValidate ==
    /\ validation = "none"
    /\ validation' = Validate(config)
    /\ UNCHANGED <<config, sherpa_engine, now>>
    /\ UNCHANGED <<qvars, svars, lvars, wvars, rvars, mvars>>

ConfigNext == ConfigValidate

ConfigSpec == ConfigInit /\ [][ConfigNext]_vars

\* a string that is empty or holds nothing but whitespace
IsBlank(s) == \A i \in 1..Len(s) : s[i] = " "

\* C30: with realtime_engine = "vosk" and a valid sample_rate and
\* audio_gain, validation fails with "vosk_model_path must be set" when
\* vosk_model_path is absent and with "must not be empty" when it is present
\* and empty or whitespace.
C30_VoskPathRequired ==
    (/\ validation # "none"
     /\ config.realtime_engine = "vosk"
     /\ config.sample_rate >= 8000 /\ config.sample_rate <= 48000
     /\ config.audio_gain > 0 /\ config.audio_gain <= 10)
    => /\ config.vosk_model_path = None
            => validation = "vosk_model_path must be set"
       /\ (config.vosk_model_path # None /\ IsBlank(config.vosk_model_path[1]))
            => validation = "vosk_model_path must not be empty"
       /\ (config.vosk_model_path # None /\ ~IsBlank(config.vosk_model_path[1]))
            => validation \notin {"vosk_model_path must be set",
                                  "vosk_model_path must not be empty"}

\* a vosk configuration whose path is two blanks has been rejected as empty
C30_Witness ==
    /\ validation = "vosk_model_path must not be empty"
    /\ config.realtime_engine = "vosk"
    /\ config.vosk_model_path = Some(<<" ", " ">>)

(***************************************************************************)
(* Claims about the engine selected in config.toml                         *)
(***************************************************************************)

VoskPathErrors == {"vosk_model_path must be set", "vosk_model_path must not be empty"}

\* C31: a configuration with realtime_engine = "sherpa-onnx" is never
\* rejected for its vosk_model_path, whether that is absent, blank or set:
\* whatever error validation reports is about something else.
C31_SherpaNeedsNoVoskPath ==
    (validation # "none" /\ config.realtime_engine = "sherpa-onnx")
        => validation \notin VoskPathErrors

\* a sherpa-onnx configuration without vosk_model_path, with its four model
\* files in place, has passed validation
C31_Witness ==
    /\ validation = "Ok"
    /\ config.realtime_engine = "sherpa-onnx"
    /\ config.vosk_model_path = None

(***************************************************************************)
(* Claims about the samples in the WAV file                                *)
(***************************************************************************)

MaxPopped == 2      \* longest batch the writer pops in the conversion runs

\* try_pop_batch has returned a batch of f32 samples (writer.rs lines 46, 58)
QuantizeInit ==
    /\ QInit
    /\ SInit
    /\ LInit
    /\ EInit
    /\ f32_samples \in UNION {[1..n -> Floats] : n \in 1..MaxPopped}
    /\ wav = <<>>
    /\ RInit /\ MInit

\* lines 47-50 and 59-62: the next sample of the batch is converted and
\* handed to write_sample
WriteSample ==
    /\ Len(wav) < Len(f32_samples)
    /\ wav' = Append(wav, sample_i16(f32_samples[Len(wav) + 1]))
    /\ UNCHANGED f32_samples
    /\ UNCHANGED <<qvars, svars, lvars, evars, rvars, mvars>>

QuantizeNext == WriteSample

QuantizeSpec == QuantizeInit /\ [][QuantizeNext]_vars

\* f32::round of the value p / d: the nearest integer, halves away from zero
Round(p, d) ==
    IF p >= 0 THEN (2 * p + d) \div (2 * d) ELSE -((-2 * p + d) \div (2 * d))

\* C32: every sample s written to the file is
\* round(clamp(s, -1, 1) * 32767), the 16-bit integer nearest to the clamped
\* and scaled value, also for s outside [-1, 1].
C32_QuantizeRounds ==
    \A i \in 1..Len(wav) :
        wav[i] = Round(Clamp(f32_samples[i], -SampleSteps, SampleSteps) * I16_MAX,
                       SampleSteps)

(***************************************************************************)
(* Claims about the order of the steps of stop()                           *)
(***************************************************************************)

\* C33: stop() sets the stop flag, then releases the capture stream, then
\* drops the session's text sender, and only then joins the threads, one at
\* a time in spawn order: resampler, WAV writer, recognition, text writer.
\* No join is made before the flag is set and the sender is dropped.
C33_StopOrder ==
    /\ [][stream' # stream => (stop_signal /\ stream' = "dropped" /\ text_tx)]_vars
    /\ [][text_tx' # text_tx
            => (stop_signal /\ stream = "dropped" /\ session.joined = 0)]_vars
    /\ [][session'.joined # session.joined
            => /\ stop_signal /\ stream = "dropped" /\ ~text_tx
               /\ session'.joined = session.joined + 1
               /\ session'.joined = 1 => resampler.pc = "done"
               /\ session'.joined = 2 => writer.pc = "done"
               /\ session'.joined = 3 => recognition.pc = "done"
               /\ session'.joined = 4 => text_writer.pc = "done"]_vars
    /\ [](session.pc = "stopped" => session.joined = 4)

\* stop() has taken every step up to its last join
C33_Witness ==
    /\ session.pc = "try_recv"
    /\ session.joined = 4
    /\ stop_signal /\ stream = "dropped" /\ ~text_tx

(***************************************************************************)
(* Claims about the end of the text channel                                *)
(***************************************************************************)

MaxFed == 9         \* samples ever passed to process

\* the frames that line 55 drains from the buffer, the first n of them
TakenFrames(buffer, n) ==
    [i \in 1..n |-> SubSeq(buffer, (i - 1) * ChunkSize + 1, i * ChunkSize)]

\* process(&input), lines 42-66: an empty input returns at once; otherwise
\* the input joins the buffer and whole frames are drained and transformed
\* until the buffer is short of one or the transform fails
StageProcess ==
    \E n \in 0..Min(2 * ChunkSize + 1, MaxFed - Len(fed)) :
        LET input == [i \in 1..n |-> Len(fed) + i]
            k == ProcessFrames(resampler.buffer, input)
        IN  IF input = <<>>
            THEN /\ returned' = "Ok"
                 /\ resampler' = [resampler EXCEPT !.out = <<>>]
                 /\ UNCHANGED <<fed, transformed>>
            ELSE \E bad \in 0..k :
                    LET taken == IF bad = 0 THEN k ELSE bad IN
                    /\ fed' = fed \o input
                    /\ transformed' =
                            transformed \o TakenFrames(resampler.buffer \o input, taken)
                    /\ returned' = IF bad = 0 THEN "Ok" ELSE "Err"
                    /\ resampler' = [resampler EXCEPT
                            !.buffer = ProcessRestAfter(resampler.buffer, input, bad),
                            !.out = ProcessOutput(resampler.frames + 1, k, bad),
                            !.frames = resampler.frames + taken,
                            !.errors = IF bad = 0 THEN @ ELSE @ + 1]

\* line 76: self.buffer.resize(self.chunk_size, 0.0)
Padded(buffer) ==
    [i \in 1..ChunkSize |-> IF i <= Len(buffer) THEN buffer[i] ELSE 0]

\* flush(), lines 68-91: nothing to do on an empty buffer; otherwise the
\* buffer is padded, cleared and transformed, and a part of the output kept
StageFlush ==
    IF resampler.buffer = <<>>
    THEN /\ returned' = "Ok"
         /\ resampler' = [resampler EXCEPT !.out = <<>>]
         /\ UNCHANGED <<fed, transformed>>
    ELSE \E ok \in BOOLEAN :
            /\ transformed' = Append(transformed, Padded(resampler.buffer))
            /\ returned' = IF ok THEN "Ok" ELSE "Err"
            /\ resampler' = [resampler EXCEPT
                    !.buffer = <<>>,
                    !.out = IF ok THEN FlushOutput(resampler.buffer, resampler.frames + 1)
                            ELSE <<>>,
                    !.frames = @ + 1,
                    !.errors = IF ok THEN @ ELSE @ + 1]
            /\ UNCHANGED fed

\* what a call on the AudioResampler leaves alone
StageFrame ==
    /\ UNCHANGED <<stop_signal, stream, text_tx, raw_queue, resampled_queue_writer,
                   resampled_queue_realtime, writer, recognition, text_channel,
                   text_writer, wav_path_channel, session, failed, captured,
                   pending_at_stop>>
    /\ UNCHANGED <<qvars, lvars, evars, wvars, mvars>>

Process == StageProcess /\ StageFrame

Flush == StageFlush /\ StageFrame

\* an AudioResampler that is only ever asked to process
ProcessSpec == Init /\ [][Process]_vars

\* an AudioResampler that is asked to process and to flush, in any order
StageSpec == Init /\ [][Process \/ Flush]_vars

RECURSIVE Flatten(_)
\* the frames of a sequence of frames, one after the other
Flatten(frames) == IF frames = <<>> THEN <<>> ELSE Head(frames) \o Flatten(Tail(frames))

\* C35: process hands the transform only frames of exactly chunk_size
\* samples, taken in arrival order; the samples passed in are those frames
\* followed by the carry-over buffer, so their number is chunk_size times the
\* frames plus the carry-over; after every call that returned Ok the
\* carry-over is shorter than chunk_size; and chunk_size samples fed into an
\* empty stage make exactly one frame and leave the buffer empty.
C35_WholeFramesInOrder ==
    /\ \A i \in 1..Len(transformed) : Len(transformed[i]) = ChunkSize
    /\ Flatten(transformed) \o resampler.buffer = fed
    /\ Len(fed) = ChunkSize * Len(transformed) + Len(resampler.buffer)
    /\ returned = "Ok" => Len(resampler.buffer) < ChunkSize
    /\ (Len(fed) = ChunkSize /\ returned = "Ok" /\ resampler.errors = 0)
            => (Len(transformed) = 1 /\ resampler.buffer = <<>>)

(***************************************************************************)
(* C36: flush                                                              *)
(***************************************************************************)

\* the zeros flush appends to r leftover samples
ZeroPadding(r) == [i \in 1..(ChunkSize - r) |-> 0]

\* C36: a flush with r leftover samples, 0 < r < chunk_size, transforms
\* exactly one frame, the leftover followed by zeros, and returns at most
\* floor(r * frame output length / chunk_size) samples; a flush with an empty
\* buffer returns nothing and transforms nothing; after any flush the buffer
\* is empty, so that a second flush returns nothing
C36_FlushOnePaddedFrame ==
    [][Flush =>
        LET r == Len(resampler.buffer) IN
        /\ resampler'.buffer = <<>>
        /\ r = 0 => /\ transformed' = transformed
                    /\ resampler'.frames = resampler.frames
                    /\ resampler'.out = <<>>
                    /\ returned' = "Ok"
        /\ (0 < r /\ r < ChunkSize) =>
                    /\ transformed' = Append(transformed, resampler.buffer \o ZeroPadding(r))
                    /\ resampler'.frames = resampler.frames + 1
                    /\ Len(resampler'.out) <= (r * OutPerFrame) \div ChunkSize]_vars

\* a flush has padded a partial frame with zeros and returned Ok (the samples
\* fed are numbered from 1, so a 0 in a frame is padding)
C36_Witness ==
    /\ transformed # <<>>
    /\ transformed[Len(transformed)][ChunkSize] = 0
    /\ transformed[Len(transformed)][1] # 0
    /\ resampler.buffer = <<>>
    /\ returned = "Ok"

(***************************************************************************)
(* The session at the granularity of the queue locks. Every BlockingQueue  *)
(* method takes the guard in its first statement (buffers.rs lines 20, 33, *)
(* 46, 59) and the guard is dropped where the method returns, so a call is *)
(* two steps: the thread gets the Mutex, then it runs the body and gives   *)
(* the Mutex back. A thread that finds the Mutex taken waits at lock().    *)
(* What a worker does with the batch it popped follows the return.         *)
(***************************************************************************)
LockThreads == {"callback", "resampler", "writer", "recognition"}

\* the guards thread t holds
Held(t) == {q \in QueueNames : mutex[q] = t}

\* the loop a polling worker is in when it calls try_pop_batch: the running
\* loop if it has just read the stop flag as false, or the drain loop
Polls(worker) == (worker.pc = "loop" /\ ~stop_signal) \/ worker.pc = "drain"

\* the queue whose method thread t is about to call, "none" if it is not
\* at a call
Calls(t) ==
    CASE t = "callback" ->
            IF stream = "playing" /\ captured < MaxCaptures THEN "raw_queue" ELSE "none"
      [] t = "resampler" ->
            IF Polls(resampler) THEN "raw_queue"
            ELSE IF resampler.pc = "push_writer" THEN "resampled_queue_writer"
            ELSE IF resampler.pc = "push_realtime" THEN "resampled_queue_realtime"
            ELSE "none"
      [] t = "writer" ->
            IF Polls(writer) THEN "resampled_queue_writer" ELSE "none"
      [] t = "recognition" ->
            IF Polls(recognition) THEN "resampled_queue_realtime" ELSE "none"

\* a method that returns with its guard still alive
Released_Leaked(q) == mutex

\* the MutexGuard goes out of scope where the method returns
\* (buffers.rs lines 24, 30, 37, 43, 56, 62, 67)
Released(q) == [mutex EXCEPT ![q] = "free"]

\* self.queue.lock().unwrap(): the caller gets the Mutex once it is free
LockQueue(t) ==
    /\ Calls(t) # "none"
    /\ mutex[Calls(t)] = "free"
    /\ mutex' = [mutex EXCEPT ![Calls(t)] = t]
    /\ UNCHANGED <<qvars, svars, lvars, evars, wvars, rvars>>

\* main.rs lines 90-94 inside push, buffers.rs lines 22-29
CallbackPush ==
    /\ mutex["raw_queue"] = "callback"
    /\ \E n \in CaptureLens :
        raw_queue' = PushExtend(raw_queue, Silence(n), BufferSize)
    /\ captured' = captured + 1
    /\ mutex' = Released("raw_queue")
    /\ UNCHANGED <<stop_signal, stream, text_tx, resampled_queue_writer,
                   resampled_queue_realtime, resampler, writer, recognition,
                   text_channel, text_writer, wav_path_channel, session,
                   pending_at_stop>>
    /\ UNCHANGED <<failed, qvars, lvars, evars, wvars, rvars>>

\* resampler.rs lines 123 and 161 inside try_pop_batch, and what follows its
\* return: None sends the running loop to sleep (line 156) and ends the
\* drain loop; a batch is processed (lines 125-139, 163-177)
ResamplerLockedPop ==
    /\ mutex["raw_queue"] = "resampler"
    /\ resampler.pc \in {"loop", "drain"}
    /\ IF raw_queue = <<>>
       THEN /\ resampler' = [resampler EXCEPT
                    !.pc = IF resampler.pc = "loop" THEN "sleep" ELSE "flush"]
            /\ UNCHANGED raw_queue
       ELSE ResamplerTake(resampler.pc)
    /\ mutex' = Released("raw_queue")
    /\ UNCHANGED <<stop_signal, stream, text_tx, resampled_queue_writer,
                   resampled_queue_realtime, writer, recognition, text_channel,
                   text_writer, wav_path_channel, session, captured, pending_at_stop>>
    /\ UNCHANGED <<failed, qvars, lvars, evars, wvars, rvars>>

\* resampler.rs lines 143, 181, 201 inside push
ResamplerLockedPushWriter ==
    /\ mutex["resampled_queue_writer"] = "resampler"
    /\ resampler.pc = "push_writer"
    /\ resampled_queue_writer' = PushExtend(resampled_queue_writer, resampler.out, BufferSize)
    /\ resampler' = [resampler EXCEPT
            !.pc = "push_realtime",
            !.to_writer = Accepted(@, resampled_queue_writer, resampler.out),
            !.dropped = @ \/ PushOverflows(resampled_queue_writer, resampler.out, BufferSize)]
    /\ mutex' = Released("resampled_queue_writer")
    /\ UNCHANGED <<stop_signal, stream, text_tx, raw_queue, resampled_queue_realtime,
                   writer, recognition, text_channel, text_writer, wav_path_channel,
                   session, captured, pending_at_stop>>
    /\ UNCHANGED <<failed, qvars, lvars, evars, wvars, rvars>>

\* resampler.rs lines 146, 184, 204 inside push
ResamplerLockedPushRealtime ==
    /\ mutex["resampled_queue_realtime"] = "resampler"
    /\ resampler.pc = "push_realtime"
    /\ resampled_queue_realtime' = PushExtend(resampled_queue_realtime, resampler.out, BufferSize)
    /\ resampler' = [resampler EXCEPT
            !.pc = resampler.back, !.out = <<>>, !.back = "none",
            !.to_realtime = Accepted(@, resampled_queue_realtime, resampler.out),
            !.dropped = @ \/ PushOverflows(resampled_queue_realtime, resampler.out, BufferSize)]
    /\ mutex' = Released("resampled_queue_realtime")
    /\ UNCHANGED <<stop_signal, stream, text_tx, raw_queue, resampled_queue_writer,
                   writer, recognition, text_channel, text_writer, wav_path_channel,
                   session, captured, pending_at_stop>>
    /\ UNCHANGED <<failed, qvars, lvars, evars, wvars, rvars>>

\* writer.rs lines 47 and 58 inside try_pop_batch, and the writes that follow
\* its return; None sends the running loop to sleep (line 53)
WriterLockedPop ==
    /\ mutex["resampled_queue_writer"] = "writer"
    /\ writer.pc \in {"loop", "drain"}
    /\ IF resampled_queue_writer = <<>>
       THEN /\ writer' = [writer EXCEPT
                    !.pc = IF writer.pc = "loop" THEN "sleep" ELSE "finalize"]
            /\ UNCHANGED <<resampled_queue_writer, failed>>
       ELSE WriterTake
    /\ mutex' = Released("resampled_queue_writer")
    /\ UNCHANGED <<stop_signal, stream, text_tx, raw_queue, resampled_queue_realtime,
                   resampler, recognition, text_channel, text_writer,
                   wav_path_channel, session, captured, pending_at_stop>>
    /\ UNCHANGED <<qvars, lvars, evars, wvars, rvars>>

\* recognition.rs lines 191 and 199 inside try_pop_batch, and the
\* process_audio that follows its return; None sends the running loop to
\* sleep (line 194)
RecognitionLockedPop ==
    /\ mutex["resampled_queue_realtime"] = "recognition"
    /\ recognition.pc \in {"loop", "drain"}
    /\ IF resampled_queue_realtime = <<>>
       THEN /\ recognition' = [recognition EXCEPT
                    !.pc = IF recognition.pc = "loop" THEN "sleep" ELSE "finalize"]
            /\ UNCHANGED <<resampled_queue_realtime, text_channel, failed>>
       ELSE RecognitionTake
    /\ mutex' = Released("resampled_queue_realtime")
    /\ UNCHANGED <<stop_signal, stream, text_tx, raw_queue, resampled_queue_writer,
                   resampler, writer, text_writer, wav_path_channel, session,
                   captured, pending_at_stop>>
    /\ UNCHANGED <<qvars, lvars, evars, wvars, rvars>>

\* std::thread::sleep(Duration::from_millis(10)) is over and the loop turns
Wake ==
    /\ \/ /\ resampler.pc = "sleep"
          /\ resampler' = [resampler EXCEPT !.pc = "loop"]
          /\ UNCHANGED <<writer, recognition>>
       \/ /\ writer.pc = "sleep"
          /\ writer' = [writer EXCEPT !.pc = "loop"]
          /\ UNCHANGED <<resampler, recognition>>
       \/ /\ recognition.pc = "sleep"
          /\ recognition' = [recognition EXCEPT !.pc = "loop"]
          /\ UNCHANGED <<resampler, writer>>
    /\ UNCHANGED <<stop_signal, stream, text_tx, raw_queue, resampled_queue_writer,
                   resampled_queue_realtime, text_channel, text_writer,
                   wav_path_channel, session, captured, pending_at_stop>>
    /\ UNCHANGED <<failed, qvars, lvars, evars, wvars, rvars, mvars>>

\* the while condition of a running loop reads the stop flag as true
SeesStop ==
    /\ stop_signal
    /\ \/ Held("resampler") = {} /\ ResamplerLoop
       \/ Held("writer") = {} /\ WriterLoop
       \/ Held("recognition") = {} /\ RecognitionLoop

\* the steps that call no queue method
Unlocked ==
    \/ ResamplerNew
    \/ ResamplerFlush
    \/ WriterNew
    \/ WriterFinalize
    \/ RecognitionNew
    \/ RecognitionFinalize
    \/ RecognitionReturn
    \/ TextWriterNew
    \/ TextWriterRecv
    \/ TextWriterClose
    \/ StopStore
    \/ StopDropStream
    \/ StopDropTextTx
    \/ StopJoin
    \/ StopReturn

LockNext ==
    \/ \E t \in LockThreads : LockQueue(t)
    \/ CallbackPush
    \/ ResamplerLockedPop
    \/ ResamplerLockedPushWriter
    \/ ResamplerLockedPushRealtime
    \/ WriterLockedPop
    \/ RecognitionLockedPop
    \/ Wake
    \/ SeesStop
    \/ Unlocked

LockSpec == Init /\ [][LockNext]_vars

\* the position of a thread that locks queues: the callback's run count or
\* the worker's record
Position(t) ==
    CASE t = "callback" -> captured
      [] t = "resampler" -> resampler
      [] t = "writer" -> writer
      [] t = "recognition" -> recognition

\* thread t is inside the method of queue q that its code calls there
InMethod(t, q) ==
    CASE t = "callback" -> q = "raw_queue"
      [] t = "resampler" ->
            \/ q = "raw_queue" /\ resampler.pc \in {"loop", "drain"}
            \/ q = "resampled_queue_writer" /\ resampler.pc = "push_writer"
            \/ q = "resampled_queue_realtime" /\ resampler.pc = "push_realtime"
      [] t = "writer" ->
            q = "resampled_queue_writer" /\ writer.pc \in {"loop", "drain"}
      [] t = "recognition" ->
            q = "resampled_queue_realtime" /\ recognition.pc \in {"loop", "drain"}

\* the step of the thread that holds the guard of q
BodyOf(q) ==
    \/ mutex[q] = "callback" /\ CallbackPush
    \/ mutex[q] = "resampler"
            /\ (ResamplerLockedPop \/ ResamplerLockedPushWriter \/ ResamplerLockedPushRealtime)
    \/ mutex[q] = "writer" /\ WriterLockedPop
    \/ mutex[q] = "recognition" /\ RecognitionLockedPop

\* C37: a thread holds a queue lock only inside the queue method it called,
\* one lock at a time: never while it sleeps, waits on a channel or a join,
\* or is in another queue's method; the step by which the holder leaves the
\* method gives the lock back; the holder of a lock can always run, and
\* until stop() has returned some thread can take a step
C37_LocksAreLocal ==
    /\ [](\A q \in QueueNames : mutex[q] \in LockThreads \cup {"free"})
    /\ [](\A t \in LockThreads : \A q \in Held(t) : Held(t) = {q} /\ InMethod(t, q))
    /\ [][\A q \in QueueNames : \A t \in LockThreads :
            (mutex[q] = t /\ Position(t)' # Position(t)) => mutex'[q] = "free"]_vars
    /\ [](\A q \in QueueNames : mutex[q] # "free" => ENABLED BodyOf(q))
    /\ [](session.pc # "stopped" => ENABLED LockNext)

\* stop() waits in a join while the resampler is inside push on the writer's
\* queue, the WAV writer waits for that lock, and the text writer waits on
\* its channel
C37_Witness ==
    /\ session.pc = "join"
    /\ mutex["resampled_queue_writer"] = "resampler"
    /\ Calls("writer") = "resampled_queue_writer"
    /\ text_writer.pc = "recv"
    /\ \E w \in {recognition} : w.pc = "sleep"

(***************************************************************************)
(* C38: the mono conversion of the resampler thread, on devices of         *)
(* different channel counts                                                *)
(***************************************************************************)
MonoCaptures == 3       \* runs of the capture callback
MaxChannels == 3        \* channels of the capture device
MaxFrames == 2          \* frames the device hands to one callback

\* what the device hands to the callback: frames of one sample per channel,
\* interleaved; a frame's samples alternate between a and b
Interleaved(channels, frames, a, b) ==
    [i \in 1..(channels * frames) |-> IF i % 2 = 1 THEN a ELSE b]

\* main.rs lines 90-94 on a device with some channel count
MonoCapture ==
    /\ stream = "playing"
    /\ captured < MonoCaptures
    /\ \E channels \in 1..MaxChannels, frames \in 1..MaxFrames, a, b \in {-1, 1} :
        raw_queue' = PushExtend(raw_queue, Interleaved(channels, frames, a, b), BufferSize)
    /\ captured' = captured + 1
    /\ UNCHANGED <<stop_signal, stream, text_tx, resampled_queue_writer,
                   resampled_queue_realtime, resampler, writer, recognition,
                   text_channel, text_writer, wav_path_channel, session,
                   pending_at_stop>>
    /\ UNCHANGED <<failed, qvars, lvars, evars, wvars, rvars, mvars>>

\* resampler.rs lines 123-139: try_pop_batch returns a batch, which is
\* converted, amplified and passed to process
MonoTake ==
    /\ resampler.pc = "loop"
    /\ raw_queue # <<>>
    /\ ResamplerTake("loop")
    /\ LET samples == DrainTaken(raw_queue, PopCount(raw_queue, LargePop)) IN
        /\ f32_samples' = samples
        /\ fed' = fed \o Amplified(MonoSamples(samples), AudioGain)
    /\ UNCHANGED <<stop_signal, stream, text_tx, resampled_queue_writer,
                   resampled_queue_realtime, writer, recognition, text_channel,
                   text_writer, wav_path_channel, session, captured, pending_at_stop>>
    /\ UNCHANGED <<failed, qvars, lvars, evars, wav, transformed, returned, mvars>>

MonoNext ==
    \/ MonoCapture
    \/ ResamplerNew
    \/ MonoTake
    \/ ResamplerPushWriter
    \/ ResamplerPushRealtime

\* the capture callback and the running loop of the resampler thread
MonoSpec == Init /\ [][MonoNext]_vars

StartSteps_PlayAfterSpawn ==
    <<"get_device_info", "build_input_stream", "spawn_resampler", "play",
      "spawn_writer", "spawn_recognition", "spawn_text_writer">>

\* the statements of start() that can fail or spawn, in program order:
\* lines 71, 88-97, 99, 109, 129, 148, 161
StartSteps ==
    <<"get_device_info", "build_input_stream", "play", "spawn_resampler",
      "spawn_writer", "spawn_recognition", "spawn_text_writer">>

\* the statement after step, "recording" once Ok(Self {..}) is returned
AfterStep(step) ==
    LET i == CHOOSE k \in 1..Len(StartSteps) : StartSteps[k] = step IN
    IF i = Len(StartSteps) THEN "recording" ELSE StartSteps[i + 1]

\* the worker a spawn statement starts
Spawned(step) ==
    CASE step = "spawn_resampler" -> "resampler"
      [] step = "spawn_writer" -> "writer"
      [] step = "spawn_recognition" -> "recognition"
      [] step = "spawn_text_writer" -> "text_writer"

Unspawned(worker) == [worker EXCEPT !.pc = "unspawned"]

StartInit ==
    /\ QInit /\ LInit /\ EInit /\ WInit /\ RInit /\ MInit
    /\ stop_signal = FALSE
    /\ stream = "none"
    /\ text_tx = FALSE
    /\ raw_queue = <<>>
    /\ resampled_queue_writer = <<>>
    /\ resampled_queue_realtime = <<>>
    /\ resampler = Unspawned([pc |-> "new", buffer |-> <<>>, out |-> <<>>, back |-> "none",
                              frames |-> 0, to_writer |-> <<>>, to_realtime |-> <<>>,
                              dropped |-> FALSE, errors |-> 0])
    /\ writer = Unspawned([pc |-> "new", written |-> 0, finalized |-> FALSE,
                           filepath |-> NoPath])
    /\ recognition = Unspawned([pc |-> "new", sender |-> TRUE, finalized |-> 0, sent |-> 0,
                                error |-> "none", calls |-> 0, rejects |-> {}])
    /\ text_channel = <<>>
    /\ text_writer = Unspawned([pc |-> "new", line_count |-> 0, unflushed |-> 0,
                                lines |-> <<>>])
    /\ wav_path_channel = <<>>
    /\ session = [pc |-> StartSteps[1], joined |-> 0,
                  base_name |-> 0,
                  wav_path |-> build_wav_path(0),
                  realtime_txt_path |-> RealtimeTxtPath(0),
                  reported |-> FALSE,
                  output |-> NoOutput]
    /\ failed = {}
    /\ captured = 0
    /\ pending_at_stop = FALSE

\* what a step of start() itself leaves alone
StartFrame ==
    /\ UNCHANGED <<stop_signal, raw_queue, resampled_queue_writer,
                   resampled_queue_realtime, text_channel, wav_path_channel,
                   failed, captured, pending_at_stop>>
    /\ UNCHANGED <<qvars, lvars, evars, wvars, rvars, mvars>>

\* the `?` of a failed step: start() returns the error, and what it has
\* built so far (the stream, the channels) is dropped
StartFails ==
    /\ session' = [session EXCEPT !.pc = "failed"]
    /\ stream' = IF stream = "none" THEN "none" ELSE "dropped"
    /\ text_tx' = FALSE

\* line 71: audio::get_device_info(&device)?, then the pipeline and the
\* channels of lines 75-82
StartGetDeviceInfo ==
    /\ session.pc = "get_device_info"
    /\ \E ok \in BOOLEAN :
        IF ok
        THEN /\ session' = [session EXCEPT !.pc = AfterStep("get_device_info")]
             /\ text_tx' = TRUE
             /\ UNCHANGED stream
        ELSE StartFails
    /\ UNCHANGED <<resampler, writer, recognition, text_writer>>
    /\ StartFrame

\* lines 88-97: device.build_input_stream(..)?
StartBuildInputStream ==
    /\ session.pc = "build_input_stream"
    /\ \E ok \in BOOLEAN :
        IF ok
        THEN /\ session' = [session EXCEPT !.pc = AfterStep("build_input_stream")]
             /\ stream' = "built"
             /\ UNCHANGED text_tx
        ELSE StartFails
    /\ UNCHANGED <<resampler, writer, recognition, text_writer>>
    /\ StartFrame

\* line 99: stream.play()?
StartPlay ==
    /\ session.pc = "play"
    /\ \E ok \in BOOLEAN :
        IF ok
        THEN /\ session' = [session EXCEPT !.pc = AfterStep("play")]
             /\ stream' = "playing"
             /\ UNCHANGED text_tx
        ELSE StartFails
    /\ UNCHANGED <<resampler, writer, recognition, text_writer>>
    /\ StartFrame

\* lines 109, 129, 148, 161: std::thread::spawn, which returns the handle
StartSpawn ==
    /\ session.pc \in {"spawn_resampler", "spawn_writer", "spawn_recognition",
                       "spawn_text_writer"}
    /\ LET w == Spawned(session.pc) IN
        /\ resampler' = IF w = "resampler" THEN [resampler EXCEPT !.pc = "new"] ELSE resampler
        /\ writer' = IF w = "writer" THEN [writer EXCEPT !.pc = "new"] ELSE writer
        /\ recognition' = IF w = "recognition" THEN [recognition EXCEPT !.pc = "new"]
                          ELSE recognition
        /\ text_writer' = IF w = "text_writer" THEN [text_writer EXCEPT !.pc = "new"]
                          ELSE text_writer
    /\ session' = [session EXCEPT !.pc = AfterStep(session.pc)]
    /\ UNCHANGED <<stream, text_tx>>
    /\ StartFrame

StartNext ==
    \/ StartGetDeviceInfo
    \/ StartBuildInputStream
    \/ StartPlay
    \/ StartSpawn
    \/ Capture
    \/ ResamplerNew
    \/ ResamplerLoop
    \/ ResamplerPushWriter
    \/ ResamplerPushRealtime
    \/ WriterNew
    \/ WriterLoop
    \/ RecognitionNew
    \/ RecognitionLoop
    \/ TextWriterNew
    \/ TextWriterRecv

\* a call of start(), with the callback and the workers it sets going
StartSpec == StartInit /\ [][StartNext]_vars

\* the workers that exist
SpawnedWorkers == {i \in 1..Len(WorkerNames) : WorkerPc(i) # "unspawned"}

\* C39: start() returns an error only from get_device_info,
\* build_input_stream or play, and until play has succeeded no worker thread
\* exists; so a start() that has failed has spawned no thread, and it leaves
\* no playing stream behind
C39_FailedStartSpawnsNothing ==
    /\ [][session'.pc = "failed" =>
            session.pc \in {"failed", "get_device_info", "build_input_stream", "play"}]_vars
    /\ [](session.pc \in {"get_device_info", "build_input_stream", "play", "failed"}
            => SpawnedWorkers = {})
    /\ [](session.pc = "failed" => (stream # "playing" /\ captured = 0))

\* play() has failed on a stream that was built
C39_Witness ==
    /\ session.pc = "failed"
    /\ stream = "dropped"
    /\ SpawnedWorkers = {}

(***************************************************************************)
(* C40: the recording loop's flag, its session slot and its exit           *)
(***************************************************************************)

\* C40: at the start of every iteration of the recording loop is_recording
\* is true exactly when the loop holds a session, and that session is
\* running; the loop breaks (after Ctrl+C or the Exit command) only from the
\* top of an iteration where it holds no session or from a stop() that has
\* returned, so that once it has broken no session has threads left
C40_FlagMatchesSlotAndExitStops ==
    /\ [](recording_loop.pc = "top" =>
            /\ recording_loop.is_recording <=> recording_loop.session # 0
            /\ recording_loop.session # 0 =>
                    sessions[recording_loop.session].state = "active")
    /\ [][(recording_loop'.pc = "exited" /\ recording_loop.pc # "exited") =>
            /\ ~running
            /\ \/ recording_loop.pc = "top" /\ ~recording_loop.is_recording
               \/ /\ recording_loop.pc = "exit_stop"
                  /\ recording_loop.is_recording
                  /\ sessions'[recording_loop.session].state = "stopped"]_vars
    /\ [](recording_loop.pc = "exited" => Live(sessions) = {})

\* the Exit command came while a session was recording: the loop has
\* stopped that session and has broken
C40_Witness ==
    /\ recording_loop.pc = "exited"
    /\ recording_loop.is_recording
    /\ recording_loop.cmd = "Exit"
    /\ sessions # <<>>
    /\ sessions[Len(sessions)].state = "stopped"
    /\ sessions[Len(sessions)].stops = 1

=============================================================================
